---- MODULE Spec2Model ----
(***************************************************************************)
(* A model of the bundle resolver: the compact-index client's concurrent   *)
(* dependency discovery (src/compact_index_client.rs), the version set     *)
(* algebra (src/version.rs) and the resolver driver (src/resolver.rs).     *)
(*                                                                         *)
(* Text is modelled as a sequence of one-character strings, so that the    *)
(* line and field splitting of the info parser is computed, not assumed.   *)
(***************************************************************************)
EXTENDS Integers, Sequences, FiniteSets, Bags, TLC

\* ------------------------------------------------------------------ bounds

\* Largest semaphore capacity explored (num_cpus::get() on the host).
MaxPermits == 3

\* Longest list of root gem names passed to resolve_dependencies.
MaxRoots == 2

\* ------------------------------------------------------------ text helpers

NL == "\n"

\* Index of the first occurrence of character c in s, 0 when there is none
\* (str::find).
RECURSIVE IndexFrom(_, _, _)
IndexFrom(s, c, i) ==
    IF i > Len(s) THEN 0
    ELSE IF s[i] = c THEN i
    ELSE IndexFrom(s, c, i + 1)

IndexOf(s, c) == IndexFrom(s, c, 1)

\* The text before the first c (the whole text when there is none):
\* s.split(c).next().
Before(s, c) ==
    IF IndexOf(s, c) = 0 THEN s ELSE SubSeq(s, 1, IndexOf(s, c) - 1)

\* The text after the first c (empty when there is none): the second item of
\* s.splitn(2, c), with unwrap_or("").
After(s, c) ==
    IF IndexOf(s, c) = 0 THEN <<>> ELSE SubSeq(s, IndexOf(s, c) + 1, Len(s))

\* str::split(c): always at least one item.
RECURSIVE Split(_, _)
Split(s, c) ==
    IF IndexOf(s, c) = 0 THEN <<s>>
    ELSE <<Before(s, c)>> \o Split(After(s, c), c)

\* str::lines(): split on "\n", no empty item for a final newline.
RECURSIVE Lines(_)
Lines(s) ==
    IF s = <<>> THEN <<>>
    ELSE IF IndexOf(s, NL) = 0 THEN <<s>>
    ELSE <<Before(s, NL)>> \o Lines(After(s, NL))

RECURSIVE TrimStart(_)
TrimStart(s) ==
    IF s # <<>> /\ s[1] = " " THEN TrimStart(Tail(s)) ELSE s

RECURSIVE TrimEnd(_)
TrimEnd(s) ==
    IF s # <<>> /\ s[Len(s)] = " " THEN TrimEnd(SubSeq(s, 1, Len(s) - 1)) ELSE s

\* str::trim()
Trim(s) == TrimEnd(TrimStart(s))

StartsWith(s, p) == Len(s) >= Len(p) /\ SubSeq(s, 1, Len(p)) = p

HEADER == <<"-", "-", "-">>

\* --------------------------------------------------- names, paths, files

\* Gem names of the modelled index (no '.' in them).
Names == {<<"a">>, <<"b">>, <<"c">>}

\* A path below the client's cache_dir: directory, file stem and extension.
VersionsPath == [dir |-> "", stem |-> <<"versions">>, ext |-> ""]

InfoPath(n) == [dir |-> "info", stem |-> n, ext |-> ""]

InfoEtagPath(n) == [dir |-> "info-etags", stem |-> n, ext |-> ""]

\* Path::with_extension
WithExtension(p, e) == [p EXCEPT !.ext = e]

Paths ==
    {VersionsPath, WithExtension(VersionsPath, "etag")}
        \cup {InfoPath(n) : n \in Names}
        \cup {InfoEtagPath(n) : n \in Names}
        \cup {WithExtension(InfoEtagPath(n), "etag") : n \in Names}

NoFile == [exists |-> FALSE, data |-> <<>>]

FileOf(text) == [exists |-> TRUE, data |-> text]

\* ------------------------------------------------------- cache update

NoEtag == [present |-> FALSE, value |-> <<>>]

\* An HTTP answer. status 0 stands for a request that failed in transport
\* (send() returned Err).
Resp(status, etag, body) == [status |-> status, etag |-> etag, body |-> body]

\* write_etag: the ETag goes to <file_path>.etag
WriteEtag(fs, file_path, etag) ==
    [fs EXCEPT ![WithExtension(file_path, "etag")] = FileOf(etag)]

\* The body is the `---` header and nothing else.
IsHeaderOnly(body) == Len(Lines(body)) = 1 /\ Lines(body)[1] = HEADER

\* process_response as it would be if the whole body of a partial answer were
\* appended, its first byte included.
ProcessResponseAppendsWholeBody(fs, resp, cache_path, etag_path) ==
    LET is_partial == resp.status = 206
        fs1 == IF resp.etag.present
               THEN WriteEtag(fs, etag_path, resp.etag.value)
               ELSE fs
    IN  IF is_partial /\ fs1[cache_path].exists
        THEN [fs |-> [fs1 EXCEPT ![cache_path] =
                         FileOf(fs1[cache_path].data \o resp.body)],
              kind |-> "file", data |-> <<>>]
        ELSE IF IsHeaderOnly(resp.body)
             THEN [fs |-> fs1, kind |-> "none", data |-> <<>>]
             ELSE [fs |-> [fs1 EXCEPT ![cache_path] = FileOf(resp.body)],
                   kind |-> "mem", data |-> resp.body]

\* process_response: the resulting files, the kind of source handed back
\* ("none", "file", "mem"; "err" and "panic" for a failure) and the bytes a
\* reader of that source gets. The appended-to File is handed back with its
\* position at the end of the file, so its reader gets nothing; when nothing
\* was appended (a body of one byte) no write moved the position and the
\* reader gets the whole file.
ProcessResponse(fs, resp, cache_path, etag_path) ==
    LET is_partial == resp.status = 206
        fs1 == IF resp.etag.present
               THEN WriteEtag(fs, etag_path, resp.etag.value)
               ELSE fs
    IN  IF is_partial /\ fs1[cache_path].exists
        THEN IF resp.body = <<>>
             THEN [fs |-> fs1, kind |-> "panic", data |-> <<>>]
             ELSE [fs |-> [fs1 EXCEPT ![cache_path] =
                              FileOf(fs1[cache_path].data \o Tail(resp.body))],
                   kind |-> "file",
                   data |-> IF Tail(resp.body) = <<>> THEN fs1[cache_path].data
                            ELSE <<>>]
        ELSE IF IsHeaderOnly(resp.body)
             THEN [fs |-> fs1, kind |-> "none", data |-> <<>>]
             ELSE [fs |-> [fs1 EXCEPT ![cache_path] = FileOf(resp.body)],
                   kind |-> "mem", data |-> resp.body]

\* The header `Range: bytes=<first>-`.
RangeFrom(first) == [unit |-> "bytes", first |-> first]

\* The conditional headers update_cache puts on its request, each absent
\* (<<>>) or present (<<value>>): only when a file stands at etag_path,
\* If-None-Match with what read_etag finds at <etag_path>.etag and Range from
\* the size of the file at etag_path.
RequestHeaders(fs, etag_path) ==
    IF fs[etag_path].exists
    THEN [if_none_match |->
              IF fs[WithExtension(etag_path, "etag")].exists
              THEN <<fs[WithExtension(etag_path, "etag")].data>> ELSE <<>>,
          range |->
              IF Len(fs[etag_path].data) > 0
              THEN <<RangeFrom(Len(fs[etag_path].data) - 1)>> ELSE <<>>]
    ELSE [if_none_match |-> <<>>, range |-> <<>>]

\* update_cache, after the request was answered by resp.
UpdateCache(fs, resp, cache_path, etag_path) ==
    IF resp.status = 0
    THEN [fs |-> fs, kind |-> "err", data |-> <<>>]
    ELSE IF resp.status = 304
    THEN [fs |-> fs, kind |-> "none", data |-> <<>>]
    ELSE IF resp.status >= 200 /\ resp.status <= 299
    THEN ProcessResponse(fs, resp, cache_path, etag_path)
    ELSE [fs |-> fs, kind |-> "err", data |-> <<>>]

\* ------------------------------------------------------------ info parser

\* RubyVersion::parse(text).is_platform(): a '-' before any '+'.
IsPlatformText(ver_str) == IndexOf(Before(ver_str, "+"), "-") # 0

\* The clause strings parse_req returns beside the requirement.
ReqStrings(text, sep) ==
    IF Trim(text) = <<"*">> THEN <<>>
    ELSE [i \in 1..Len(Split(text, sep)) |-> Trim(Split(text, sep)[i])]

\* One entry of the dependency list of a release line.
ParseDepEntry(entry) ==
    LET e == Trim(entry)
    IN  IF e = <<>> \/ IndexOf(e, ":") = 0 THEN <<>>
        ELSE << [name |-> Before(e, ":"),
                 requirement_str |-> ReqStrings(Trim(After(e, ":")), "&")] >>

RECURSIVE ParseDeps(_)
ParseDeps(entries) ==
    IF entries = <<>> THEN <<>>
    ELSE ParseDepEntry(Head(entries)) \o ParseDeps(Tail(entries))

\* The parsing of a line as it would be if platform-tagged versions were
\* kept.
ParseInfoLineKeepsPlatform(gem_name, raw) ==
    LET line == Before(raw, "|")
        ver_str == Before(line, " ")
        deps_str == After(line, " ")
    IN  IF StartsWith(raw, HEADER) THEN <<>>
        ELSE << [name |-> gem_name, version |-> ver_str,
                 dependencies |-> ParseDeps(Split(deps_str, ","))] >>

\* One line of an info file: no release for the header and for a
\* platform-tagged version.
ParseInfoLine(gem_name, raw) ==
    LET line == Before(raw, "|")
        ver_str == Before(line, " ")
        deps_str == After(line, " ")
    IN  IF StartsWith(raw, HEADER) THEN <<>>
        ELSE IF IsPlatformText(ver_str) THEN <<>>
        ELSE << [name |-> gem_name, version |-> ver_str,
                 dependencies |-> ParseDeps(Split(deps_str, ","))] >>

RECURSIVE ParseInfoLines(_, _)
ParseInfoLines(gem_name, lines) ==
    IF lines = <<>> THEN <<>>
    ELSE ParseInfoLine(gem_name, Head(lines))
            \o ParseInfoLines(gem_name, Tail(lines))

\* info as it would be if a missing info file were reported as a failure.
InfoFailsWithoutFile(fs, resp, gem_name) ==
    LET u == UpdateCache(fs, resp, InfoPath(gem_name), InfoEtagPath(gem_name))
    IN  IF u.kind \in {"err", "panic"}
        THEN [fs |-> u.fs, kind |-> u.kind, versions |-> <<>>]
        ELSE IF ~u.fs[InfoPath(gem_name)].exists \/ u.kind = "none"
        THEN [fs |-> u.fs, kind |-> "err", versions |-> <<>>]
        ELSE [fs |-> u.fs, kind |-> "ok",
              versions |-> ParseInfoLines(gem_name, Lines(u.data))]

\* info(gem_name) against the files fs, the server answering resp.
Info(fs, resp, gem_name) ==
    LET u == UpdateCache(fs, resp, InfoPath(gem_name), InfoEtagPath(gem_name))
    IN  IF u.kind \in {"err", "panic"}
        THEN [fs |-> u.fs, kind |-> u.kind, versions |-> <<>>]
        ELSE IF ~u.fs[InfoPath(gem_name)].exists \/ u.kind = "none"
        THEN [fs |-> u.fs, kind |-> "ok", versions |-> <<>>]
        ELSE [fs |-> u.fs, kind |-> "ok",
              versions |-> ParseInfoLines(gem_name, Lines(u.data))]

\* The names a list of releases depends on, in the order the main loop
\* walks them.
RECURSIVE DepNames(_)
DepNames(versions) ==
    IF versions = <<>> THEN <<>>
    ELSE [i \in 1..Len(Head(versions).dependencies) |->
              Head(versions).dependencies[i].name]
            \o DepNames(Tail(versions))

\* ------------------------------------------------ the modelled index server

A == <<"a">>

B == <<"b">>

C == <<"c">>

Ok200(body) == Resp(200, [present |-> TRUE, value |-> <<"e">>], body)

\* `---\n1 b:1\n`: one release that depends on b.
BodyDepB == HEADER \o <<NL, "1", " ", "b", ":", "1", NL>>

\* `---\n1 c:1\n2 a:1,b:2&3\n`: two releases, depending on c and on a and b.
BodyTwoReleases ==
    HEADER \o <<NL, "1", " ", "c", ":", "1", NL,
                "2", " ", "a", ":", "1", ",", "b", ":", "2", "&", "3", NL>>

\* `---\n`: the header and no release.
BodyHeaderOnly == HEADER \o <<NL>>

\* `---\n1-x a:1\n2+b-c\n`: a platform-tagged release and a release without
\* dependencies whose build metadata holds a `-`.
BodyPlatform ==
    HEADER \o <<NL, "1", "-", "x", " ", "a", ":", "1", NL,
                "2", "+", "b", "-", "c", NL>>

\* `---\n1\n`, as left in the cache by an earlier run.
CachedOneRelease == HEADER \o <<NL, "1", NL>>

\* The situations of one info endpoint: the cached file, the ETag file and
\* the server's answer.
Fresh(resp) == [cache |-> NoFile, etag |-> NoFile, resp |-> resp]

Cached206(etag, body) ==
    [cache |-> FileOf(CachedOneRelease), etag |-> FileOf(<<"d">>),
     resp |-> Resp(206, etag, body)]

Scenarios(n) ==
    CASE n = A -> { Fresh(Ok200(BodyDepB)),
                    Fresh(Ok200(BodyTwoReleases)),
                    Fresh(Resp(404, NoEtag, <<>>)),
                    Cached206([present |-> TRUE, value |-> <<"e">>],
                              <<NL, "2", " ", "b", ":", "1", NL>>) }
      [] n = B -> { Fresh(Ok200(BodyTwoReleases)),
                    Fresh(Ok200(BodyHeaderOnly)),
                    Fresh(Ok200(BodyPlatform)),
                    Fresh(Ok200(HEADER)) }
      [] OTHER -> { Fresh(Ok200(BodyDepB)),
                    Fresh(Ok200(BodyHeaderOnly)),
                    Fresh(Resp(0, NoEtag, <<>>)),
                    Cached206(NoEtag, BodyHeaderOnly) }

VersionsResponses ==
    { Ok200(HEADER \o <<NL, "a", " ", "1", NL>>), Resp(500, NoEtag, <<>>) }

\* The files of a cache directory whose info endpoints are as sc says.
DiskOf(sc) ==
    [p \in Paths |->
        IF \E n \in Names : p = InfoPath(n)
        THEN sc[p.stem].cache
        ELSE IF \E n \in Names : p = WithExtension(InfoEtagPath(n), "etag")
        THEN sc[p.stem].etag
        ELSE NoFile]

\* ------------------------------------------------------- version algebra

\* Segment::Numeric(n) and Segment::Text(s); a text is a sequence of
\* characters.
Numeric(n) == [kind |-> "Numeric", num |-> n, text |-> <<>>]

Text(t) == [kind |-> "Text", num |-> 0, text |-> t]

\* The characters of the texts in use, in the order of their bytes.
Alphabet ==
    <<" ", "!", "0", "1", "2", "3", "4", "5", "6", "7", "8", "9",
      "<", "=", ">", "^", "a", "b", "c", "e", "o", "p", "r", "t", "~">>

CharRank(c) == CHOOSE i \in 1..Len(Alphabet) : Alphabet[i] = c

\* str::cmp: -1, 0 or 1.
RECURSIVE StrCmp(_, _)
StrCmp(x, y) ==
    IF x = <<>> /\ y = <<>> THEN 0
    ELSE IF x = <<>> THEN -1
    ELSE IF y = <<>> THEN 1
    ELSE IF CharRank(Head(x)) < CharRank(Head(y)) THEN -1
    ELSE IF CharRank(Head(x)) > CharRank(Head(y)) THEN 1
    ELSE StrCmp(Tail(x), Tail(y))

\* The order of segments as it would be if a text were above a number.
SegmentCmpTextAbove(x, y) ==
    IF x.kind = "Numeric" /\ y.kind = "Numeric"
    THEN (IF x.num < y.num THEN -1 ELSE IF x.num > y.num THEN 1 ELSE 0)
    ELSE IF x.kind = "Numeric" THEN -1
    ELSE IF y.kind = "Numeric" THEN 1
    ELSE StrCmp(x.text, y.text)

\* Segment::partial_cmp.
SegmentCmp(x, y) ==
    IF x.kind = "Numeric" /\ y.kind = "Numeric"
    THEN (IF x.num < y.num THEN -1 ELSE IF x.num > y.num THEN 1 ELSE 0)
    ELSE IF x.kind = "Numeric" THEN 1
    ELSE IF y.kind = "Numeric" THEN -1
    ELSE StrCmp(x.text, y.text)

\* RubyVersion::partial_cmp: segment by segment, the shorter version padded
\* with Numeric(0).
RECURSIVE VersionCmpFrom(_, _, _)
VersionCmpFrom(v, w, i) ==
    IF i > Len(v) /\ i > Len(w) THEN 0
    ELSE LET x == IF i <= Len(v) THEN v[i] ELSE Numeric(0)
             y == IF i <= Len(w) THEN w[i] ELSE Numeric(0)
             ord == SegmentCmp(x, y)
         IN  IF ord # 0 THEN ord ELSE VersionCmpFrom(v, w, i + 1)

VersionCmp(v, w) == VersionCmpFrom(v, w, 1)

\* RubyVersion::is_prerelease.
IsPrerelease(v) == \E i \in 1..Len(v) : v[i].kind = "Text"

\* A version of numeric segments, and one followed by a text segment.
Ver(nums) == [i \in 1..Len(nums) |-> Numeric(nums[i])]

Pre(nums, t) == Ver(nums) \o <<Text(t)>>

\* RubyVersion::bump: drop the trailing text segments, drop one more segment
\* when two or more are left, add one to the last.
RECURSIVE StripTrailingText(_)
StripTrailingText(v) ==
    IF v # <<>> /\ v[Len(v)].kind = "Text"
    THEN StripTrailingText(SubSeq(v, 1, Len(v) - 1))
    ELSE v

\* bump as it would be if no segment were dropped after the trailing texts.
BumpKeepsSegments(v) ==
    LET kept == StripTrailingText(v)
    IN  IF kept = <<>> THEN <<Numeric(1)>>
        ELSE LET last == kept[Len(kept)]
             IN  SubSeq(kept, 1, Len(kept) - 1) \o
                 <<Numeric((IF last.kind = "Numeric" THEN last.num ELSE 0) + 1)>>

Bump(v) ==
    LET stripped == StripTrailingText(v)
        kept == IF Len(stripped) > 1 THEN SubSeq(stripped, 1, Len(stripped) - 1)
                ELSE stripped
    IN  IF kept = <<>> THEN <<Numeric(1)>>
        ELSE LET last == kept[Len(kept)]
             IN  SubSeq(kept, 1, Len(kept) - 1) \o
                 <<Numeric((IF last.kind = "Numeric" THEN last.num ELSE 0) + 1)>>

\* The derived PartialEq of RubyVersion: the segments are the same.
VersionEq(v, w) == v = w

\* RubyVersion::parse: the text before any `+` and before any `-`, split at
\* the dots; of each part the leading digits make a Numeric segment and what
\* follows them a Text segment.
Digits == <<"0", "1", "2", "3", "4", "5", "6", "7", "8", "9">>

IsDigit(c) == \E i \in 1..Len(Digits) : Digits[i] = c

DigitValue(c) == (CHOOSE i \in 1..Len(Digits) : Digits[i] = c) - 1

RECURSIVE LeadingDigits(_)
LeadingDigits(part) ==
    IF part # <<>> /\ IsDigit(Head(part))
    THEN <<Head(part)>> \o LeadingDigits(Tail(part))
    ELSE <<>>

RECURSIVE ParseNumber(_, _)
ParseNumber(digits, n) ==
    IF digits = <<>> THEN n
    ELSE ParseNumber(Tail(digits), 10 * n + DigitValue(Head(digits)))

ParsePart(part) ==
    LET digits == LeadingDigits(part)
        letters == SubSeq(part, Len(digits) + 1, Len(part))
    IN  (IF digits # <<>> THEN <<Numeric(ParseNumber(digits, 0))>> ELSE <<>>)
        \o (IF letters # <<>> THEN <<Text(letters)>> ELSE <<>>)

RECURSIVE ParseParts(_)
ParseParts(parts) ==
    IF parts = <<>> THEN <<>>
    ELSE ParsePart(Head(parts)) \o ParseParts(Tail(parts))

ParseVersion(text) == ParseParts(Split(Before(Before(text, "+"), "-"), "."))

\* ------------------------------------------- version sets (requirements)

\* A set of versions (pubgrub::Ranges<RubyVersion>) is held as the set of the
\* atoms it covers: the versions of Points, in ascending order, are the even
\* atoms 2, 4, ..., and the odd atoms are the open gaps below, between and
\* above them. Every version and every bound in use is one of Points.
Points ==
    << Ver(<<0, 0, 0>>), Ver(<<0, 9, 0>>), Ver(<<0, 9, 11>>), Ver(<<0, 10>>),
       Ver(<<1, 0, 0>>), Pre(<<1, 1, 0>>, <<"p", "r", "e">>), Ver(<<1, 1, 0>>),
       Ver(<<1, 2>>), Pre(<<1, 2, 3>>, <<"p", "r", "e">>), Ver(<<1, 2, 3>>),
       Ver(<<1, 3>>), Ver(<<1, 4>>), Ver(<<1, 5, 0>>), Ver(<<1, 7, 0>>),
       Ver(<<1, 8, 0>>), Ver(<<1, 9, 9>>), Ver(<<1, 10, 0>>),
       Ver(<<1, 11, 0>>), Ver(<<2, 0, 0>>),
       Pre(<<3, 0, 0>>, <<"r", "c", "1", "2">>), Ver(<<3, 0, 0>>),
       Ver(<<3, 1>>) >>

Atoms == 1..(2 * Len(Points) + 1)

AtomOf(v) ==
    LET below == Cardinality({i \in 1..Len(Points) : VersionCmp(Points[i], v) < 0})
    IN  IF \E i \in 1..Len(Points) : VersionCmp(Points[i], v) = 0
        THEN 2 * (below + 1) ELSE 2 * below + 1

RangesSingleton(v) == {AtomOf(v)}

RangesHigherThan(v) == {a \in Atoms : a >= AtomOf(v)}

RangesStrictlyHigherThan(v) == {a \in Atoms : a > AtomOf(v)}

RangesLowerThan(v) == {a \in Atoms : a <= AtomOf(v)}

RangesStrictlyLowerThan(v) == {a \in Atoms : a < AtomOf(v)}

RangesBetween(v, w) == {a \in Atoms : AtomOf(v) <= a /\ a < AtomOf(w)}

\* impl VersionSet for RichReq.
RichReq(range, allow_pre) == [range |-> range, allow_pre |-> allow_pre]

RichReqEmpty == RichReq({}, FALSE)

RichReqFull == RichReq(Atoms, TRUE)

RichReqSingleton(v) == RichReq(RangesSingleton(v), IsPrerelease(v))

RichReqComplement(x) == RichReq(Atoms \ x.range, x.allow_pre)

RichReqIntersection(x, y) ==
    RichReq(x.range \cap y.range, x.allow_pre /\ y.allow_pre)

RichReqUnion(x, y) == RichReq(x.range \cup y.range, x.allow_pre \/ y.allow_pre)

RichReqContains(x, v) ==
    IF IsPrerelease(v) /\ ~x.allow_pre THEN FALSE ELSE AtomOf(v) \in x.range

RichReqIsDisjoint(x, y) == x.range \cap y.range = {}

RichReqSubsetOf(x, y) == x.range \subseteq y.range

\* The upper bound of `~> v` as it would be if every version were cut to its
\* first segment.
PessimisticNextMajorOnly(rv) ==
    IF rv = <<>> THEN <<>>
    ELSE IF rv[1].kind = "Numeric" THEN <<Numeric(rv[1].num + 1)>>
    ELSE <<rv[1]>>

\* The upper bound of `~> v`.
PessimisticNext(rv) ==
    IF Len(rv) > 2 THEN Bump(rv)
    ELSE IF rv = <<>> THEN <<>>
    ELSE IF rv[1].kind = "Numeric" THEN <<Numeric(rv[1].num + 1)>>
    ELSE <<rv[1]>>

\* The upper bound of `^ v`.
CaretNext(rv) ==
    IF rv # <<>> /\ rv[1].kind = "Numeric" /\ rv[1].num > 0
    THEN [rv EXCEPT ![1] = Numeric(rv[1].num + 1)]
    ELSE IF Len(rv) > 1 /\ rv[2].kind = "Numeric"
    THEN [rv EXCEPT ![2] = Numeric(rv[2].num + 1)]
    ELSE rv

\* One clause of a requirement, its operator and its version already told
\* apart: the range of the operator, and pre-releases admitted only by an
\* `=` clause on a pre-release.
ClauseReq(op, rv) ==
    RichReq(
        CASE op = "="  -> RangesSingleton(rv)
          [] op = ">"  -> RangesStrictlyHigherThan(rv)
          [] op = ">=" -> RangesHigherThan(rv)
          [] op = "<"  -> RangesStrictlyLowerThan(rv)
          [] op = "<=" -> RangesLowerThan(rv)
          [] op = "!=" -> RangesStrictlyLowerThan(rv) \cup
                          RangesStrictlyHigherThan(rv)
          [] op = "~>" -> RangesBetween(rv, PessimisticNext(rv))
          [] op = "^"  -> RangesHigherThan(rv) \cap
                          RangesStrictlyLowerThan(CaretNext(rv))
          [] OTHER     -> Atoms,
        op = "=" /\ IsPrerelease(rv))

Clause(op, ver) == [op |-> op, ver |-> ver]

\* The requirement `*`.
Star == <<Clause("*", <<>>)>>

\* parse_req: `*` alone is the full set; otherwise the intersection of the
\* clauses, starting from the full set, a `*` among them skipped.
RECURSIVE ParseClauses(_, _)
ParseClauses(set, clauses) ==
    IF clauses = <<>> THEN set
    ELSE IF Head(clauses).op = "*" THEN ParseClauses(set, Tail(clauses))
    ELSE ParseClauses(
            RichReqIntersection(set,
                ClauseReq(Head(clauses).op, Head(clauses).ver)),
            Tail(clauses))

ParseReq(req) ==
    IF req = Star THEN RichReqFull ELSE ParseClauses(RichReqFull, req)

\* str::trim_start_matches(p): every leading repetition of p is removed.
RECURSIVE TrimStartMatches(_, _)
TrimStartMatches(s, p) ==
    IF p # <<>> /\ StartsWith(s, p)
    THEN TrimStartMatches(SubSeq(s, Len(p) + 1, Len(s)), p)
    ELSE s

\* parse_req: the operator and the version text of one trimmed clause. The
\* prefixes are tried in the order of the code; a clause with none of them
\* is read as an `=` clause.
Prefixed(op, s, p) == [op |-> op, ver_str |-> Trim(TrimStartMatches(s, p))]

SplitClause(s) ==
    IF StartsWith(s, <<"~", ">">>) THEN Prefixed("~>", s, <<"~", ">">>)
    ELSE IF StartsWith(s, <<"^">>) THEN Prefixed("^", s, <<"^">>)
    ELSE IF StartsWith(s, <<">", "=">>) THEN Prefixed(">=", s, <<">", "=">>)
    ELSE IF StartsWith(s, <<"<", "=">>) THEN Prefixed("<=", s, <<"<", "=">>)
    ELSE IF StartsWith(s, <<">">>) THEN Prefixed(">", s, <<">">>)
    ELSE IF StartsWith(s, <<"<">>) THEN Prefixed("<", s, <<"<">>)
    ELSE IF StartsWith(s, <<"!", "=">>) THEN Prefixed("!=", s, <<"!", "=">>)
    ELSE Prefixed("=", s, <<"=">>)

\* parse_req: the clauses of a text, each with its operator and its parsed
\* version.
ClauseOf(s) ==
    IF s = <<"*">> THEN Clause("*", <<>>)
    ELSE Clause(SplitClause(s).op, ParseVersion(SplitClause(s).ver_str))

ClausesOf(text, sep) ==
    [i \in 1..Len(ReqStrings(text, sep)) |-> ClauseOf(ReqStrings(text, sep)[i])]

\* parse_req(text, separator): the requirement and the clause strings. It
\* returns no Result; the only way it fails is the panic of
\* `next.segments[0]` on a `~>` clause without a version.
ParseReqText(text, sep) ==
    [kind |-> IF \E i \in 1..Len(ClausesOf(text, sep)) :
                    /\ ClausesOf(text, sep)[i].op = "~>"
                    /\ ClausesOf(text, sep)[i].ver = <<>>
              THEN "panic" ELSE "ok",
     req |-> IF Trim(text) = <<"*">> THEN RichReqFull
             ELSE ParseClauses(RichReqFull, ClausesOf(text, sep)),
     req_str |-> ReqStrings(text, sep)]

\* ------------------------------------------------ the resolver's universe

Root == <<"r", "o", "o", "t">>

RootVersion == Ver(<<0, 0, 0>>)

Packages == Names \cup {Root}

\* Option values: None and Some(x).
None == <<>>

Some(x) == <<x>>

\* A dependency as handed to add_dependencies: (name, requirement).
Dep(name, req) == [name |-> name, req |-> req]

\* The dependency map of one release: for a name listed twice, the last
\* requirement.
DepMap(constraints) ==
    [n \in {constraints[i].name : i \in 1..Len(constraints)} |->
        LET last == CHOOSE i \in 1..Len(constraints) :
                        /\ constraints[i].name = n
                        /\ \A j \in (i + 1)..Len(constraints) :
                              constraints[j].name # n
        IN  constraints[last].req]

\* The releases of a package are kept in ascending order; a release equal to
\* one already there, under the order, takes its place.
RECURSIVE InsertRelease(_, _, _)
InsertRelease(releases, version, deps) ==
    IF releases = <<>> THEN <<[version |-> version, deps |-> deps]>>
    ELSE LET ord == VersionCmp(version, Head(releases).version)
         IN  IF ord < 0
             THEN <<[version |-> version, deps |-> deps]>> \o releases
             ELSE IF ord = 0
             THEN <<[version |-> Head(releases).version, deps |-> deps]>>
                      \o Tail(releases)
             ELSE <<Head(releases)>>
                      \o InsertRelease(Tail(releases), version, deps)

\* Resolver::add_dependencies, on the dependency provider.
AddDependencies(u, gem, version, constraints) ==
    [u EXCEPT ![gem] = InsertRelease(u[gem], version, DepMap(constraints))]

\* main: the releases of a gem are added newest first ...
RECURSIVE AddGem(_, _, _)
AddGem(u, gem, versions) ==
    IF versions = <<>> THEN u
    ELSE AddGem(
            AddDependencies(u, gem, versions[Len(versions)].version,
                [i \in 1..Len(versions[Len(versions)].dependencies) |->
                    Dep(versions[Len(versions)].dependencies[i].name,
                        ParseReq(versions[Len(versions)].dependencies[i].req))]),
            gem, SubSeq(versions, 1, Len(versions) - 1))

RECURSIVE AddGems(_, _, _)
AddGems(u, gems, todo) ==
    IF todo = {} THEN u
    ELSE LET gem == CHOOSE n \in todo : TRUE
         IN  AddGems(AddGem(u, gem, gems[gem]), gems, todo \ {gem})

\* ... then the root, whose dependencies are those of the Gemfile, a missing
\* requirement read as `*`.
RootConstraints(gemfile) ==
    [i \in 1..Len(gemfile) |->
        Dep(gemfile[i].name,
            IF gemfile[i].requirement = None THEN ParseReq(Star)
            ELSE ParseReq(gemfile[i].requirement[1]))]

BuildUniverse(gems, gemfile) ==
    AddDependencies(AddGems([p \in Packages |-> <<>>], gems, DOMAIN gems),
                    Root, RootVersion, RootConstraints(gemfile))

\* choose_version of the dependency provider: the releases from the newest
\* down, the first one the set contains.
RECURSIVE ChooseFrom(_, _, _)
ChooseFrom(releases, i, set) ==
    IF i = 0 THEN None
    ELSE IF RichReqContains(set, releases[i].version)
    THEN Some(releases[i].version)
    ELSE ChooseFrom(releases, i - 1, set)

ChooseVersion(u, package, set) ==
    ChooseFrom(u[package], Len(u[package]), set)

\* ------------------------------------------------------ the solver: terms

\* pubgrub::resolve, which Resolver::resolve calls with RichReq as the version
\* set: terms, incompatibilities and the partial solution. The merging of the
\* dependency incompatibilities of two releases and the cache of contradicted
\* incompatibilities, which save work only, are left out.
Positive(set) == [positive |-> TRUE, set |-> set]

Negative(set) == [positive |-> FALSE, set |-> set]

TermAny == Negative(RichReqEmpty)

TermExact(v) == Positive(RichReqSingleton(v))

TermNegate(t) == [t EXCEPT !.positive = ~t.positive]

TermContains(t, v) ==
    IF t.positive THEN RichReqContains(t.set, v) ELSE ~RichReqContains(t.set, v)

TermIntersection(t1, t2) ==
    IF t1.positive /\ t2.positive
    THEN Positive(RichReqIntersection(t1.set, t2.set))
    ELSE IF t1.positive
    THEN Positive(RichReqIntersection(RichReqComplement(t2.set), t1.set))
    ELSE IF t2.positive
    THEN Positive(RichReqIntersection(RichReqComplement(t1.set), t2.set))
    ELSE Negative(RichReqUnion(t1.set, t2.set))

TermUnion(t1, t2) ==
    IF t1.positive /\ t2.positive
    THEN Positive(RichReqUnion(t1.set, t2.set))
    ELSE IF t1.positive
    THEN Negative(RichReqIntersection(RichReqComplement(t1.set), t2.set))
    ELSE IF t2.positive
    THEN Negative(RichReqIntersection(RichReqComplement(t2.set), t1.set))
    ELSE Negative(RichReqIntersection(t1.set, t2.set))

TermSubsetOf(t1, t2) ==
    IF t1.positive /\ t2.positive THEN RichReqSubsetOf(t1.set, t2.set)
    ELSE IF t1.positive THEN RichReqIsDisjoint(t1.set, t2.set)
    ELSE IF t2.positive THEN FALSE
    ELSE RichReqSubsetOf(t2.set, t1.set)

TermIsDisjoint(t1, t2) ==
    IF t1.positive /\ t2.positive THEN RichReqIsDisjoint(t1.set, t2.set)
    ELSE IF t1.positive THEN RichReqSubsetOf(t1.set, t2.set)
    ELSE IF t2.positive THEN RichReqSubsetOf(t2.set, t1.set)
    ELSE t1.set = RichReqComplement(t2.set)

\* Term::relation_with: what the assignments of a package, intersected, say
\* about a term of an incompatibility.
TermRelationWith(t, others) ==
    IF TermSubsetOf(others, t) THEN "Satisfied"
    ELSE IF TermIsDisjoint(t, others) THEN "Contradicted"
    ELSE "Inconclusive"

\* ------------------------------------------ the solver: incompatibilities

Incompat(kind, terms) == [kind |-> kind, terms |-> terms]

NotRoot == Incompat("NotRoot", Root :> Negative(RichReqSingleton(RootVersion)))

NoVersions(package, set) == Incompat("NoVersions", package :> Positive(set))

FromDependency(package, version, dep, set) ==
    Incompat("FromDependencyOf",
        IF set = RichReqEmpty
        THEN package :> Positive(RichReqSingleton(version))
        ELSE (package :> Positive(RichReqSingleton(version)))
                 @@ (dep :> Negative(set)))

\* Incompatibility::prior_cause.
PriorCause(inc, cause, package) ==
    LET others == (DOMAIN inc.terms \cup DOMAIN cause.terms) \ {package}
        merged == [q \in others |->
                      IF q \in DOMAIN inc.terms /\ q \in DOMAIN cause.terms
                      THEN TermIntersection(inc.terms[q], cause.terms[q])
                      ELSE IF q \in DOMAIN inc.terms THEN inc.terms[q]
                      ELSE cause.terms[q]]
        term == TermUnion(inc.terms[package], cause.terms[package])
    IN  Incompat("DerivedFrom",
                 IF term # TermAny THEN (package :> term) @@ merged ELSE merged)

\* Incompatibility::is_terminal.
IsTerminal(inc) ==
    \/ DOMAIN inc.terms = {}
    \/ /\ DOMAIN inc.terms = {Root}
       /\ TermContains(inc.terms[Root], RootVersion)

\* --------------------------------------- the solver: the partial solution

\* The assignments in the order they were made (the place of an assignment is
\* its global index): decisions and derivations, a derivation with the
\* intersection of the terms derived for its package so far.
Decision(package, version, level) ==
    [package |-> package, decision |-> TRUE, level |-> level, cause |-> 0,
     version |-> Some(version), term |-> TermExact(version)]

Derivation(package, level, cause, term) ==
    [package |-> package, decision |-> FALSE, level |-> level, cause |-> cause,
     version |-> None, term |-> term]

IndicesOf(tr, package) == {i \in 1..Len(tr) : tr[i].package = package}

Max(S) == CHOOSE x \in S : \A y \in S : y <= x

Min(S) == CHOOSE x \in S : \A y \in S : x <= y

Assigned(tr, package) == IndicesOf(tr, package) # {}

LastOf(tr, package) == tr[Max(IndicesOf(tr, package))]

Decided(tr, package) == Assigned(tr, package) /\ LastOf(tr, package).decision

\* current_decision_level
DecisionLevel(tr) == Cardinality({i \in 1..Len(tr) : tr[i].decision})

\* PartialSolution::add_derivation
AddDerivation(tr, package, cause, inc) ==
    LET term == TermNegate(inc.terms[package])
    IN  Append(tr, Derivation(package, DecisionLevel(tr), cause,
                   IF Assigned(tr, package)
                   THEN TermIntersection(LastOf(tr, package).term, term)
                   ELSE term))

\* PartialSolution::add_decision
AddDecision(tr, package, version) ==
    Append(tr, Decision(package, version, DecisionLevel(tr) + 1))

\* PartialSolution::backtrack
Backtrack(tr, level) == SelectSeq(tr, LAMBDA e : e.level <= level)

\* Incompatibility::relation against the partial solution; `exact` gives, for
\* the package about to be decided, the term of that decision.
TermRelation(inc, tr, exact, q) ==
    IF q \in DOMAIN exact THEN TermRelationWith(inc.terms[q], exact[q])
    ELSE IF Assigned(tr, q)
    THEN TermRelationWith(inc.terms[q], LastOf(tr, q).term)
    ELSE "Inconclusive"

Relation(inc, tr, exact) ==
    LET open == {q \in DOMAIN inc.terms :
                    TermRelation(inc, tr, exact, q) = "Inconclusive"}
    IN  IF \E q \in DOMAIN inc.terms :
               TermRelation(inc, tr, exact, q) = "Contradicted"
        THEN [kind |-> "Contradicted", package |-> None]
        ELSE IF open = {} THEN [kind |-> "Satisfied", package |-> None]
        ELSE IF Cardinality(open) = 1
        THEN [kind |-> "AlmostSatisfied",
              package |-> Some(CHOOSE q \in open : TRUE)]
        ELSE [kind |-> "Inconclusive", package |-> None]

\* PackageAssignments::satisfier: the place of the first assignment of the
\* package from which its assignments leave nothing of start_term; 0 when
\* there is none (the solver panics).
Satisfier(tr, package, start_term) ==
    LET found == {i \in IndicesOf(tr, package) :
                     ~tr[i].decision /\ TermIsDisjoint(tr[i].term, start_term)}
    IN  IF found # {} THEN Min(found)
        ELSE IF Decided(tr, package) THEN Max(IndicesOf(tr, package))
        ELSE 0

\* PartialSolution::satisfier_search
SatisfierSearch(inc, tr, incs) ==
    LET sat == [q \in DOMAIN inc.terms |->
                   Satisfier(tr, q, TermNegate(inc.terms[q]))]
        idx == Max({sat[q] : q \in DOMAIN inc.terms})
        package == CHOOSE q \in DOMAIN inc.terms : sat[q] = idx
        cause == tr[idx].cause
        accum == IF cause # 0 THEN TermNegate(incs[cause].terms[package])
                 ELSE tr[idx].term
        prev == [sat EXCEPT ![package] =
                    Satisfier(tr, package,
                        TermIntersection(accum, TermNegate(inc.terms[package])))]
        previdx == Max({prev[q] : q \in DOMAIN inc.terms})
        prevlevel == IF tr[previdx].level > 1 THEN tr[previdx].level ELSE 1
    IN  IF \E q \in DOMAIN inc.terms : sat[q] = 0
        THEN [kind |-> "panic", package |-> None, cause |-> 0, level |-> 0]
        ELSE IF prev[package] = 0
        THEN [kind |-> "panic", package |-> None, cause |-> 0, level |-> 0]
        ELSE IF prevlevel >= tr[idx].level
        THEN [kind |-> IF cause = 0 THEN "panic" ELSE "SameDecisionLevels",
              package |-> Some(package), cause |-> cause, level |-> prevlevel]
        ELSE [kind |-> "DifferentDecisionLevels", package |-> Some(package),
              cause |-> cause, level |-> prevlevel]

\* unit_propagation, for one package taken from the buffer: its
\* incompatibilities from the newest to the oldest, up to the first one the
\* partial solution satisfies (conflict: its place in the store).
RECURSIVE PropagateOver(_, _, _, _)
PropagateOver(ids, tr, buf, incs) ==
    IF ids = <<>>
    THEN [trail |-> tr, buffer |-> buf, conflict |-> 0, panic |-> FALSE]
    ELSE LET rel == Relation(incs[Head(ids)], tr, <<>>)
         IN  IF rel.kind = "Satisfied"
             THEN [trail |-> tr, buffer |-> buf, conflict |-> Head(ids),
                   panic |-> FALSE]
             ELSE IF rel.kind = "AlmostSatisfied"
             THEN IF Decided(tr, rel.package[1])
                  THEN [trail |-> tr, buffer |-> buf, conflict |-> 0,
                        panic |-> TRUE]
                  ELSE PropagateOver(Tail(ids),
                          AddDerivation(tr, rel.package[1], Head(ids),
                                        incs[Head(ids)]),
                          IF \E i \in 1..Len(buf) : buf[i] = rel.package[1]
                          THEN buf ELSE Append(buf, rel.package[1]),
                          incs)
             ELSE PropagateOver(Tail(ids), tr, buf, incs)

Reverse(q) == [i \in 1..Len(q) |-> q[Len(q) + 1 - i]]

\* The orders in which the entries of a map can be walked.
Orders(S) ==
    {q \in [1..Cardinality(S) -> S] : \A x \in S : \E i \in DOMAIN q : q[i] = x}

\* ------------------------------------------------ the modelled universes

Release(version, deps) == [version |-> version, dependencies |-> deps]

Requires(name, req) == [name |-> name, req |-> req]

Gem(name, requirement) == [name |-> name, requirement |-> requirement]

PreRelease110 == Pre(<<1, 1, 0>>, <<"p", "r", "e">>)

\* root -> a `~> 1.1`; a 1.10.0 -> c `~> 1.4`; a 1.11.0 -> c `~> 1.7.0`;
\* c 1.7.0 and 1.8.0.
TransitiveGemfile == <<Gem(A, Some(<<Clause("~>", Ver(<<1, 1>>))>>))>>

TransitiveGems ==
    (A :> << Release(Ver(<<1, 10, 0>>),
                 <<Requires(C, <<Clause("~>", Ver(<<1, 4>>))>>)>>),
             Release(Ver(<<1, 11, 0>>),
                 <<Requires(C, <<Clause("~>", Ver(<<1, 7, 0>>))>>)>>) >>)
    @@ (B :> <<>>)
    @@ (C :> <<Release(Ver(<<1, 7, 0>>), <<>>), Release(Ver(<<1, 8, 0>>), <<>>)>>)

\* root -> a `>= 2`, b `~> 1`; a 2.0.0 -> b `< 1`; b 0.9.0 and 1.0.0.
ConflictGemfile ==
    << Gem(A, Some(<<Clause(">=", Ver(<<2>>))>>)),
       Gem(B, Some(<<Clause("~>", Ver(<<1>>))>>)) >>

ConflictGems ==
    (A :> <<Release(Ver(<<2, 0, 0>>),
                <<Requires(B, <<Clause("<", Ver(<<1>>))>>)>>)>>)
    @@ (B :> <<Release(Ver(<<0, 9, 0>>), <<>>), Release(Ver(<<1, 0, 0>>), <<>>)>>)
    @@ (C :> <<>>)

\* The requirements a Gemfile puts on a gem, and those a release puts on b.
RootRequirements ==
    { None,
      Some(<<Clause(">=", Ver(<<1, 0>>))>>),
      Some(<<Clause("=", PreRelease110)>>),
      Some(<<Clause(">=", Ver(<<2>>))>>),
      Some(<<Clause("<", Ver(<<2>>))>>) }

ReleaseRequirements ==
    { <<Clause(">=", Ver(<<1, 0>>))>>,
      <<Clause(">=", Ver(<<2>>))>>,
      <<Clause("=", PreRelease110)>>,
      <<Clause("<", Ver(<<1>>))>>,
      <<Clause("~>", Ver(<<1, 0>>))>> }

Gemfiles ==
    {<<Gem(A, ra)>> : ra \in RootRequirements} \cup
    {<<Gem(A, ra), Gem(B, rb)>> : ra \in RootRequirements, rb \in RootRequirements}

DependencyLists == {<<>>} \cup {<<Requires(B, r)>> : r \in ReleaseRequirements}

\* a 1.0.0 and a 2.0.0 with the given dependencies and a 1.1.0.pre; b 1.0.0
\* -> c `>= 1.0`, b 1.1.0.pre, b 2.0.0 -> c `>= 2`; c 1.0.0.
FamilyGems(d1, d2) ==
    (A :> << Release(Ver(<<1, 0, 0>>), d1), Release(PreRelease110, <<>>),
             Release(Ver(<<2, 0, 0>>), d2) >>)
    @@ (B :> << Release(Ver(<<1, 0, 0>>),
                    <<Requires(C, <<Clause(">=", Ver(<<1, 0>>))>>)>>),
                Release(PreRelease110, <<>>),
                Release(Ver(<<2, 0, 0>>),
                    <<Requires(C, <<Clause(">=", Ver(<<2>>))>>)>>) >>)
    @@ (C :> <<Release(Ver(<<1, 0, 0>>), <<>>)>>)

\* a 1.0.0 and a 1.1.0.pre, the Gemfile asking for a `>= 1.0` or for a.
PreGems ==
    (A :> <<Release(Ver(<<1, 0, 0>>), <<>>), Release(PreRelease110, <<>>)>>)
    @@ (B :> <<>>) @@ (C :> <<>>)

PreGemfiles ==
    {<<Gem(A, Some(<<Clause(">=", Ver(<<1, 0>>))>>))>>, <<Gem(A, None)>>}

Manifests ==
    { [gems |-> TransitiveGems, gemfile |-> TransitiveGemfile],
      [gems |-> ConflictGems, gemfile |-> ConflictGemfile] } \cup
    { [gems |-> PreGems, gemfile |-> g] : g \in PreGemfiles } \cup
    { [gems |-> FamilyGems(d1, d2), gemfile |-> g] :
        d1 \in DependencyLists, d2 \in DependencyLists, g \in Gemfiles }

\* ------------------------------------------- resolve_dependencies: state

VARIABLES
    roots,          \* root_gems, the argument of resolve_dependencies
    capacity,       \* the permits of self.limiter (num_cpus::get())
    server,         \* the answer of the server for each /info/<name>
    versions_resp,  \* the answer of the server for /versions
    disk0,          \* the cache directory when the call starts
    index,          \* what info(name) does and returns, for each name
    fs,             \* the cache directory
    pc,             \* where the driver of resolve_dependencies stands
    graph,          \* the result map: name -> releases
    visited,
    queue,
    scheduled,
    tasks,          \* the FuturesUnordered: a bag of fetch tasks
    avail,          \* the available permits of the semaphore
    held,           \* the driver holds a permit it did not hand to a task
    launched,       \* how many fetches were spawned, per name
    collected,      \* the gems of the results taken by the main loop, in order
    gems,           \* the graph handed to the resolver: name -> releases
    gemfile,        \* the dependencies of the Gemfile
    universe,       \* the dependency provider: package -> releases
    store,          \* the solver's incompatibilities, in order of creation
    listed,         \* those looked at by unit propagation, oldest first
    trail,          \* the partial solution
    buffer,         \* the packages unit propagation has to look at
    phase,          \* where Resolver::resolve stands
    conflict,       \* the incompatibility under conflict resolution
    changed,        \* whether conflict resolution derived it
    added,          \* the (package, version)s whose dependencies are known
    backtracked,    \* has_ever_backtracked
    last_pick,      \* the last call of choose_version and its answer
    update,         \* the last cache update: its request, its answer, its result
    operands,       \* the versions and the operator a library function is given
    outcome,        \* what the library function called last returned
    lock_meta       \* Resolver::lock_meta: (name, version) -> dependencies

svars == <<gems, gemfile, universe, store, listed, trail, buffer, phase,
           conflict, changed, added, backtracked, last_pick>>

dvars == <<roots, capacity, server, versions_resp, disk0, index, fs, pc, graph,
           visited, queue, scheduled, tasks, avail, held, launched,
           collected>>

\* The cache updates and the calls of the version library looked at on their
\* own.
cvars == <<update, operands, outcome, lock_meta>>

vars == <<dvars, svars, cvars>>

\* What a call of resolve_dependencies leaves alone.
inputs == <<roots, capacity, server, versions_resp, disk0, index, svars,
            cvars>>

NoPick == [package |-> Root, set |-> RichReqEmpty, picked |-> None]

\* No cache update and no call of the version library is looked at.
NoUpdate == [endpoint |-> "none"]

NoCall == [fn |-> "none"]

LibraryIdle ==
    /\ update = NoUpdate
    /\ operands = NoCall
    /\ outcome = NoCall
    /\ lock_meta = <<>>

\* The solver before resolve is called, and the resolver before main hands
\* it the graph.
SolverIdle ==
    /\ gems = <<>>
    /\ gemfile = <<>>
    /\ store = <<>>
    /\ listed = <<>>
    /\ trail = <<>>
    /\ buffer = <<>>
    /\ phase = "idle"
    /\ conflict = 0
    /\ changed = FALSE
    /\ added = {}
    /\ backtracked = FALSE
    /\ last_pick = NoPick

ResolverIdle == SolverIdle /\ universe = <<>>

RootLists == UNION {[1..k -> Names] : k \in 0..MaxRoots}

Pending == [kind |-> "pending", versions |-> <<>>]

RunningTask(n) == [gem |-> n, st |-> "running", out |-> Pending]

DoneTask(n, out) == [gem |-> n, st |-> "done", out |-> out]

\* The files of the info endpoint of n.
EndpointPaths(n) ==
    {InfoPath(n), InfoEtagPath(n), WithExtension(InfoEtagPath(n), "etag")}

RunningTasks == {t \in BagToSet(tasks) : t.st = "running"}

DoneTasks == {t \in BagToSet(tasks) : t.st = "done"}

\* The number of tasks that hold a permit.
NumRunning ==
    LET Count[S \in SUBSET RunningTasks] ==
            IF S = {} THEN 0
            ELSE LET t == CHOOSE x \in S : TRUE
                 IN  CopiesIn(t, tasks) + Count[S \ {t}]
    IN  Count[RunningTasks]

Init ==
    /\ \E sc \in [Names -> UNION {Scenarios(n) : n \in Names}] :
          /\ \A n \in Names : sc[n] \in Scenarios(n)
          /\ server = [n \in Names |-> sc[n].resp]
          /\ disk0 = DiskOf(sc)
    /\ index = [n \in Names |-> Info(disk0, server[n], n)]
    /\ fs = disk0
    /\ versions_resp \in VersionsResponses
    /\ roots \in RootLists
    /\ capacity \in 1..MaxPermits
    /\ pc = "start"
    /\ graph = <<>>
    /\ visited = {}
    /\ queue = roots
    /\ scheduled = {}
    /\ tasks = EmptyBag
    /\ avail = capacity
    /\ held = FALSE
    /\ launched = [n \in Names |-> 0]
    /\ collected = <<>>
    /\ ResolverIdle
    /\ LibraryIdle

\* ------------------------------------------ resolve_dependencies: actions

\* self.ensure_versions_fresh().await?
EnsureVersionsFresh ==
    /\ pc = "start"
    /\ LET u == UpdateCache(fs, versions_resp, VersionsPath, VersionsPath)
       IN  /\ fs' = u.fs
           /\ pc' = IF u.kind \in {"err", "panic"} THEN u.kind ELSE "fill"
    /\ UNCHANGED <<inputs, graph, visited, queue, scheduled, tasks, avail,
                   held, launched, collected>>

\* The spawn as it would be if the name were not recorded in `scheduled`.
SpawnWithoutMark(n) ==
    /\ scheduled' = scheduled
    /\ tasks' = tasks (+) SetToBag({RunningTask(n)})
    /\ launched' = [launched EXCEPT ![n] = @ + 1]

\* tokio::spawn of spawn_fetch, the permit moved into the task.
Spawn(n) ==
    /\ scheduled' = scheduled \cup {n}
    /\ tasks' = tasks (+) SetToBag({RunningTask(n)})
    /\ launched' = [launched EXCEPT ![n] = @ + 1]

\* One pass of the initial fill loop up to the spawn: pop a name, try to
\* acquire a permit (on failure the name goes back to the front and the loop
\* continues), spawn a fetch if the name is new.
FillPop ==
    /\ pc = "fill"
    /\ IF queue = <<>>
       THEN /\ pc' = "await"
            /\ UNCHANGED <<queue, scheduled, tasks, avail, held, launched>>
       ELSE IF avail = 0
       THEN UNCHANGED <<pc, queue, scheduled, tasks, avail, held, launched>>
       ELSE /\ avail' = avail - 1
            /\ queue' = Tail(queue)
            /\ pc' = "fill_check"
            /\ IF Head(queue) \notin visited /\ Head(queue) \notin scheduled
               THEN Spawn(Head(queue)) /\ held' = FALSE
               ELSE held' = TRUE /\ UNCHANGED <<scheduled, tasks, launched>>
    /\ UNCHANGED <<inputs, fs, graph, visited, collected>>

\* The end of a pass of the initial fill loop: leave the loop when
\* tasks.len() >= available_permits(); a permit that went to no task is
\* dropped.
FillCheck ==
    /\ pc = "fill_check"
    /\ pc' = IF BagCardinality(tasks) >= avail THEN "await" ELSE "fill"
    /\ avail' = IF held THEN avail + 1 ELSE avail
    /\ held' = FALSE
    /\ UNCHANGED <<inputs, fs, graph, visited, queue, scheduled, tasks,
                   launched, collected>>

\* The main loop as it would be if only the dependencies of the first release
\* of a result were enqueued.
AwaitFirstReleaseOnly ==
    /\ pc = "await"
    /\ IF tasks = EmptyBag
       THEN /\ pc' = "done"
            /\ UNCHANGED <<tasks, graph, visited, queue, collected>>
       ELSE \E t \in DoneTasks :
              /\ tasks' = tasks (-) SetToBag({t})
              /\ collected' = Append(collected, t.gem)
              /\ IF t.out.kind # "ok"
                 THEN /\ pc' = "panic"
                      /\ UNCHANGED <<graph, visited, queue>>
                 ELSE /\ pc' = "refill"
                      /\ visited' = visited \cup {t.gem}
                      /\ graph' = IF t.gem \in visited THEN graph
                                  ELSE (t.gem :> t.out.versions) @@ graph
                      /\ queue' = queue \o
                            SelectSeq(DepNames(IF t.out.versions = <<>> THEN <<>>
                                               ELSE <<Head(t.out.versions)>>),
                                      LAMBDA d : d \notin visited \cup {t.gem})
    /\ UNCHANGED <<inputs, fs, scheduled, avail, held, launched>>

\* tasks.next().await: the loop ends when no task is left; otherwise a task
\* that completed is taken, its result unwrapped and recorded.
Await ==
    /\ pc = "await"
    /\ IF tasks = EmptyBag
       THEN /\ pc' = "done"
            /\ UNCHANGED <<tasks, graph, visited, queue, collected>>
       ELSE \E t \in DoneTasks :
              /\ tasks' = tasks (-) SetToBag({t})
              /\ collected' = Append(collected, t.gem)
              /\ IF t.out.kind # "ok"
                 THEN /\ pc' = "panic"
                      /\ UNCHANGED <<graph, visited, queue>>
                 ELSE /\ pc' = "refill"
                      /\ visited' = visited \cup {t.gem}
                      /\ graph' = IF t.gem \in visited THEN graph
                                  ELSE (t.gem :> t.out.versions) @@ graph
                      /\ queue' = queue \o
                            SelectSeq(DepNames(t.out.versions),
                                      LAMBDA d : d \notin visited \cup {t.gem})
    /\ UNCHANGED <<inputs, fs, scheduled, avail, held, launched>>

\* The refill loop as it would be if a name that finds no permit were
\* dropped instead of left in the queue.
RefillDropsWhenBusy ==
    /\ pc = "refill"
    /\ IF queue = <<>>
       THEN /\ pc' = "await"
            /\ UNCHANGED <<queue, scheduled, tasks, avail, launched>>
       ELSE IF Head(queue) \notin visited /\ Head(queue) \notin scheduled
       THEN IF avail = 0
            THEN /\ pc' = "await"
                 /\ queue' = Tail(queue)
                 /\ UNCHANGED <<scheduled, tasks, avail, launched>>
            ELSE /\ avail' = avail - 1
                 /\ queue' = Tail(queue)
                 /\ Spawn(Head(queue))
                 /\ pc' = "refill"
       ELSE /\ queue' = Tail(queue)
            /\ UNCHANGED <<pc, scheduled, tasks, avail, launched>>
    /\ UNCHANGED <<inputs, fs, graph, visited, held, collected>>

\* One pass of the refill loop: a name that is new takes a permit
\* (try_acquire_owned) or, when none is free, stays at the front of the queue.
Refill ==
    /\ pc = "refill"
    /\ IF queue = <<>>
       THEN /\ pc' = "await"
            /\ UNCHANGED <<queue, scheduled, tasks, avail, launched>>
       ELSE IF Head(queue) \notin visited /\ Head(queue) \notin scheduled
       THEN IF avail = 0
            THEN /\ pc' = "await"
                 /\ UNCHANGED <<queue, scheduled, tasks, avail, launched>>
            ELSE /\ avail' = avail - 1
                 /\ queue' = Tail(queue)
                 /\ Spawn(Head(queue))
                 /\ pc' = "refill"
       ELSE /\ queue' = Tail(queue)
            /\ UNCHANGED <<pc, scheduled, tasks, avail, launched>>
    /\ UNCHANGED <<inputs, fs, graph, visited, held, collected>>

\* A fetch as it would be if info took a permit of the limiter of its own.
TaskCompleteTakesPermit ==
    /\ pc # "panic"
    /\ avail > 0
    /\ \E t \in RunningTasks :
          /\ fs' = [p \in Paths |->
                      IF p \in EndpointPaths(t.gem) THEN index[t.gem].fs[p]
                      ELSE fs[p]]
          /\ tasks' = (tasks (-) SetToBag({t})) (+)
                SetToBag({DoneTask(t.gem,
                    [kind |-> index[t.gem].kind,
                     versions |-> index[t.gem].versions])})
          /\ avail' = avail + 1
    /\ UNCHANGED <<inputs, pc, graph, visited, queue, scheduled, held,
                   launched, collected>>

\* A fetch as it would be if the permit were given back on success only.
TaskCompleteLeaksOnFailure ==
    /\ pc # "panic"
    /\ \E t \in RunningTasks :
          /\ fs' = [p \in Paths |->
                      IF p \in EndpointPaths(t.gem) THEN index[t.gem].fs[p]
                      ELSE fs[p]]
          /\ tasks' = (tasks (-) SetToBag({t})) (+)
                SetToBag({DoneTask(t.gem,
                    [kind |-> index[t.gem].kind,
                     versions |-> index[t.gem].versions])})
          /\ avail' = IF index[t.gem].kind = "ok" THEN avail + 1 ELSE avail
    /\ UNCHANGED <<inputs, pc, graph, visited, queue, scheduled, held,
                   launched, collected>>

\* A spawned task runs client.info(&gem) to its end: the cache files are
\* updated, the permit is released (also when info failed) and the result
\* becomes ready for the driver. info reads and writes the files of its own
\* endpoint only, so its outcome is the one `index` holds (InfoAgrees checks,
\* in every state, that info on the current files gives exactly that).
TaskComplete ==
    /\ pc # "panic"
    /\ \E t \in RunningTasks :
          /\ fs' = [p \in Paths |->
                      IF p \in EndpointPaths(t.gem) THEN index[t.gem].fs[p]
                      ELSE fs[p]]
          /\ tasks' = (tasks (-) SetToBag({t})) (+)
                SetToBag({DoneTask(t.gem,
                    [kind |-> index[t.gem].kind,
                     versions |-> index[t.gem].versions])})
          /\ avail' = avail + 1
    /\ UNCHANGED <<inputs, pc, graph, visited, queue, scheduled, held,
                   launched, collected>>

Next ==
    \/ EnsureVersionsFresh
    \/ FillPop
    \/ FillCheck
    \/ Await
    \/ Refill
    \/ TaskComplete

Spec == Init /\ [][Next]_vars

\* The fetch tasks run on the worker threads of the runtime while the driver
\* runs on its own: whatever can make a step eventually does.
FairSpec == Spec /\ WF_vars(Next)

\* ------------------------------------------------ Resolver::resolve

\* The index client at rest while the resolver runs.
ClientIdle ==
    /\ roots = <<>>
    /\ capacity = 1
    /\ server = [n \in Names |-> Ok200(BodyHeaderOnly)]
    /\ versions_resp = Ok200(HEADER)
    /\ disk0 = [p \in Paths |-> NoFile]
    /\ index = [n \in Names |-> Info(disk0, server[n], n)]
    /\ fs = disk0
    /\ pc = "done"
    /\ graph = <<>>
    /\ visited = {}
    /\ queue = <<>>
    /\ scheduled = {}
    /\ tasks = EmptyBag
    /\ avail = capacity
    /\ held = FALSE
    /\ launched = [n \in Names |-> 0]
    /\ collected = <<>>

\* main has built the universe and calls resolver.resolve(): State::init
\* holds the incompatibility "not root" and the first package to look at is
\* the root.
InitResolve ==
    /\ ClientIdle
    /\ \E m \in Manifests :
          /\ gems = m.gems
          /\ gemfile = m.gemfile
    /\ universe = BuildUniverse(gems, gemfile)
    /\ store = <<NotRoot>>
    /\ listed = <<1>>
    /\ trail = <<>>
    /\ buffer = <<Root>>
    /\ phase = "propagate"
    /\ conflict = 0
    /\ changed = FALSE
    /\ added = {}
    /\ backtracked = FALSE
    /\ last_pick = NoPick
    /\ LibraryIdle

PackageIncompats(package) ==
    SelectSeq(listed, LAMBDA id : package \in DOMAIN store[id].terms)

\* One turn of the loop of unit_propagation; with the buffer empty the
\* solver goes on to pick a package.
Propagate ==
    /\ phase = "propagate"
    /\ IF buffer = <<>>
       THEN /\ phase' = "decide"
            /\ UNCHANGED <<trail, buffer, conflict, changed>>
       ELSE LET r == PropagateOver(
                        Reverse(PackageIncompats(buffer[Len(buffer)])),
                        trail, SubSeq(buffer, 1, Len(buffer) - 1), store)
            IN  IF r.panic
                THEN /\ phase' = "panic"
                     /\ UNCHANGED <<trail, buffer, conflict, changed>>
                ELSE /\ trail' = r.trail
                     /\ buffer' = r.buffer
                     /\ IF r.conflict # 0
                        THEN /\ phase' = "conflict"
                             /\ conflict' = r.conflict
                             /\ changed' = FALSE
                        ELSE UNCHANGED <<phase, conflict, changed>>
    /\ UNCHANGED <<dvars, cvars, gems, gemfile, universe, store, listed,
                   added, backtracked, last_pick>>

\* One turn of the loop of conflict_resolution.
ResolveConflict ==
    /\ phase = "conflict"
    /\ IF IsTerminal(store[conflict])
       THEN /\ phase' = "nosolution"
            /\ UNCHANGED <<store, listed, trail, buffer, conflict, changed,
                           backtracked>>
       ELSE LET s == SatisfierSearch(store[conflict], trail, store)
            IN  IF s.kind = "panic"
                   \/ (s.kind = "DifferentDecisionLevels"
                       /\ Decided(Backtrack(trail, s.level), s.package[1]))
                THEN /\ phase' = "panic"
                     /\ UNCHANGED <<store, listed, trail, buffer, conflict,
                                    changed, backtracked>>
                ELSE IF s.kind = "DifferentDecisionLevels"
                THEN /\ trail' = AddDerivation(Backtrack(trail, s.level),
                                    s.package[1], conflict, store[conflict])
                     /\ listed' = IF changed THEN Append(listed, conflict)
                                  ELSE listed
                     /\ buffer' = <<s.package[1]>>
                     /\ backtracked' = TRUE
                     /\ phase' = "propagate"
                     /\ UNCHANGED <<store, conflict, changed>>
                ELSE /\ store' = Append(store,
                            PriorCause(store[conflict], store[s.cause],
                                       s.package[1]))
                     /\ conflict' = Len(store) + 1
                     /\ changed' = TRUE
                     /\ UNCHANGED <<listed, trail, buffer, phase, backtracked>>
    /\ UNCHANGED <<dvars, cvars, gems, gemfile, universe, added, last_pick>>

\* The packages a version can be picked for.
Potential ==
    {p \in Packages : Assigned(trail, p) /\ ~Decided(trail, p)
                      /\ LastOf(trail, p).term.positive}

ReleaseOf(package, version) ==
    CHOOSE r \in {universe[package][i] : i \in 1..Len(universe[package])} :
        r.version = version

\* The dependency incompatibilities of a release, its dependencies walked in
\* the order ord.
DependencyIncompats(package, version, ord) ==
    [i \in 1..Len(ord) |->
        FromDependency(package, version, ord[i],
                       ReleaseOf(package, version).deps[ord[i]])]

\* The rest of a turn of the loop of resolve: with no package left the
\* decisions are the solution; otherwise a package is picked, choose_version
\* is asked for a version in the set derived for it, and either "no
\* versions" is recorded or the dependencies of the version are added and, if
\* none of them is violated at once, the version is decided.
Decide ==
    /\ phase = "decide"
    /\ IF Potential = {}
       THEN /\ phase' = "solved"
            /\ UNCHANGED <<store, listed, trail, buffer, added, last_pick>>
       ELSE \E p \in Potential :
              LET set == LastOf(trail, p).term.set
                  pick == ChooseVersion(universe, p, set)
              IN  /\ last_pick' = [package |-> p, set |-> set, picked |-> pick]
                  /\ buffer' = <<p>>
                  /\ phase' = "propagate"
                  /\ IF pick = None
                     THEN /\ store' = Append(store, NoVersions(p, set))
                          /\ listed' = Append(listed, Len(store) + 1)
                          /\ UNCHANGED <<trail, added>>
                     ELSE IF <<p, pick[1]>> \in added
                     THEN /\ trail' = AddDecision(trail, p, pick[1])
                          /\ UNCHANGED <<store, listed, added>>
                     ELSE \E ord \in Orders(DOMAIN ReleaseOf(p, pick[1]).deps) :
                            LET new == DependencyIncompats(p, pick[1], ord)
                            IN  /\ added' = added \cup {<<p, pick[1]>>}
                                /\ store' = store \o new
                                /\ listed' = listed \o
                                      [i \in 1..Len(new) |-> Len(store) + i]
                                /\ trail' =
                                      IF backtracked /\ \E i \in 1..Len(new) :
                                           Relation(new[i], trail,
                                               p :> TermExact(pick[1])).kind
                                             = "Satisfied"
                                      THEN trail
                                      ELSE AddDecision(trail, p, pick[1])
    /\ UNCHANGED <<dvars, cvars, gems, gemfile, universe, conflict, changed,
                   backtracked>>

NextResolve ==
    \/ Propagate
    \/ ResolveConflict
    \/ Decide

SpecResolve == InitResolve /\ [][NextResolve]_vars

\* What resolve returns: the decisions.
Solution ==
    [p \in {q \in Packages : Decided(trail, q)} |-> LastOf(trail, p).version[1]]

\* ------------------------------------- resolve_dependencies: reference

\* What info(n) returns for the files of the start of the call.
RefInfo(n) == Info(disk0, server[n], n)

\* The info call of every running task does, on the files as they are, what
\* `index` holds for its gem.
InfoAgrees ==
    \A t \in RunningTasks :
        LET r == Info(fs, server[t.gem], t.gem)
        IN  /\ r.kind = index[t.gem].kind
            /\ r.versions = index[t.gem].versions
            /\ \A p \in Paths :
                  r.fs[p] = IF p \in EndpointPaths(t.gem)
                            THEN index[t.gem].fs[p] ELSE fs[p]

Range(f) == {f[i] : i \in DOMAIN f}

\* The names reachable from S by the dependency names of the releases info
\* returns.
RECURSIVE ReachFrom(_)
ReachFrom(S) ==
    LET step == S \cup UNION {Range(DepNames(RefInfo(n).versions)) : n \in S}
    IN  IF step = S THEN S ELSE ReachFrom(step)

Reachable == ReachFrom(Range(roots))

Terminal == {"done", "err", "panic"}

\* -------------------------------------------------------------- claims

\* C1: when resolve_dependencies returns a graph, no fetch is in flight, the
\* queue holds no name that was not fetched, and the keys of the graph are
\* exactly the names reachable from the roots.
C1_ReturnsReachableSet ==
    pc = "done" =>
        /\ tasks = EmptyBag
        /\ \A i \in 1..Len(queue) : queue[i] \in DOMAIN graph
        /\ DOMAIN graph = Reachable

\* A call that returned all three names, one of them without releases, from
\* a single root (so the others were found through dependencies).
C1_Witness ==
    /\ pc = "done"
    /\ Len(roots) = 1
    /\ DOMAIN graph = Names
    /\ \E n \in Names : graph[n] = <<>>

\* C2: the graph returned is the function of the roots and the index alone:
\* every reachable name with the releases info returns for it, whatever the
\* order of completion and the number of permits.
C2_GraphIsScheduleIndependent ==
    /\ InfoAgrees
    /\ pc = "done" => graph = [n \in Reachable |-> RefInfo(n).versions]

\* A call that returned after taking the result of the second root before
\* that of the first, both fetched at the same time.
C2_Witness ==
    /\ pc = "done"
    /\ capacity >= 2
    /\ roots = <<A, B>>
    /\ Len(collected) >= 2
    /\ collected[1] = B
    /\ graph[A] # <<>>

\* C3: when every fetch succeeds, resolve_dependencies returns.
C3_Terminates ==
    (versions_resp.status = 200 /\ \A n \in Names : index[n].kind = "ok")
        => <>(pc = "done")

\* A call with fewer permits than roots that returned a cyclic graph.
C3_Witness ==
    /\ pc = "done"
    /\ capacity = 1
    /\ roots = <<A, C>>
    /\ A \in Range(DepNames(graph[A]))
    /\ DOMAIN graph = Names

\* C4: at most `capacity` fetches execute; every executing fetch holds one
\* permit and every permit is either available, held by an executing fetch
\* or held by the driver for the name it is looking at; a fetch that
\* completed, in success or in failure, holds none.
C4_PermitsBoundFetches ==
    /\ NumRunning <= capacity
    /\ avail >= 0
    /\ avail + NumRunning + (IF held THEN 1 ELSE 0) = capacity
    /\ (RunningTasks = {} /\ ~held) => avail = capacity

\* All permits are back after a fetch failed and another succeeded.
C4_Witness ==
    /\ avail = capacity
    /\ \E t \in DoneTasks : t.out.kind = "err"
    /\ Len(collected) >= 1
    /\ launched[A] + launched[B] + launched[C] >= 2

\* C5 (as claimed): a call that ended after one of its fetches failed ended
\* by returning the error.
C5_FailureIsReturned ==
    (pc \in Terminal /\ \E n \in Names : launched[n] > 0 /\ RefInfo(n).kind # "ok")
        => pc = "err"

\* C10: a successful answer whose body is only the header makes info return
\* no release and no error; the name is recorded with an empty release list
\* and the discovery of the other names goes on to the end.
SuccessHeaderOnly(n) ==
    /\ server[n].status \in {200, 206}
    /\ IsHeaderOnly(server[n].body)

C10_EmptyInfoIsNoFailure ==
    \A n \in Names : SuccessHeaderOnly(n) =>
        /\ RefInfo(n).kind = "ok" /\ RefInfo(n).versions = <<>>
        /\ \A t \in DoneTasks : t.gem = n => t.out = [kind |-> "ok", versions |-> <<>>]
        /\ n \in visited => (n \in DOMAIN graph /\ graph[n] = <<>>)
        /\ (pc = "done" /\ n \in Reachable) => DOMAIN graph = Reachable

\* A call that recorded a name without releases and then went on to record
\* another name with releases.
C10_Witness ==
    /\ pc = "done"
    /\ Len(collected) >= 2
    /\ SuccessHeaderOnly(collected[1])
    /\ graph[collected[1]] = <<>>
    /\ graph[collected[2]] # <<>>

\* ------------------------------------------------ claims on the resolver

\* The releases of the universe, as versions.
VersionsOf(package) ==
    {universe[package][i].version : i \in 1..Len(universe[package])}

\* asg gives every dependency of every (package, version) in it a version of
\* the universe that the requirement contains.
Satisfies(asg) ==
    /\ Root \in DOMAIN asg
    /\ \A p \in DOMAIN asg :
          /\ asg[p] \in VersionsOf(p)
          /\ \A q \in DOMAIN ReleaseOf(p, asg[p]).deps :
                /\ q \in DOMAIN asg
                /\ asg[q] \in VersionsOf(q)
                /\ RichReqContains(ReleaseOf(p, asg[p]).deps[q], asg[q])

\* C6 (as claimed): an assignment that resolve returns gives every dependency
\* of every package in it a version of the universe that the requirement
\* contains, under its range and its pre-release admission.
C6_AssignmentSatisfiesRequirements ==
    phase = "solved" => Satisfies(Solution)

\* A requirement of the Gemfile that pins a pre-release with an `=` clause.
PinsPreRelease(requirement) ==
    /\ requirement # None
    /\ \E i \in 1..Len(requirement[1]) :
          /\ requirement[1][i].op = "="
          /\ IsPrerelease(requirement[1][i].ver)

\* C7 (as claimed): a gem of the Gemfile whose requirement, given or missing,
\* pins no pre-release is never assigned a pre-release.
C7_PreReleasesExcludedByDefault ==
    phase = "solved" =>
        \A i \in 1..Len(gemfile) :
            ~PinsPreRelease(gemfile[i].requirement) =>
                /\ gemfile[i].name \in DOMAIN Solution
                /\ ~IsPrerelease(Solution[gemfile[i].name])

\* C8: every version choose_version returns is, under the version order, the
\* greatest release of the package that lies in the range of the set and,
\* when a pre-release, is admitted by it, and none is returned only when
\* there is no such release; and the resolution of root -> a `~> 1.1`,
\* a 1.10.0 -> c `~> 1.4`, a 1.11.0 -> c `~> 1.7.0`, c in {1.7.0, 1.8.0} ends
\* with a = 1.11.0 and c = 1.7.0.
Admissible(package, set) ==
    {v \in VersionsOf(package) :
        AtomOf(v) \in set.range /\ (IsPrerelease(v) => set.allow_pre)}

Assignments ==
    UNION { {asg \in [S \cup {Root} -> UNION {VersionsOf(p) : p \in Packages}] :
                \A p \in S \cup {Root} : asg[p] \in VersionsOf(p)} :
            S \in SUBSET Names }

Satisfiable == \E asg \in Assignments : Satisfies(asg)

\* C9 (as claimed): when no assignment satisfies every requirement, resolve
\* ends with an error and never with an assignment.
C9_UnsatisfiableIsAnError ==
    (phase \in {"solved", "nosolution", "panic"} /\ ~Satisfiable)
        => phase = "nosolution"

\* ------------------------------------------ cache updates on their own

\* The longest cache file explored.
MaxFileLen == 8

\* The name whose info endpoint is fetched again and again.
CacheNames == {A}

EtagE == [present |-> TRUE, value |-> <<"e">>]

EtagF == [present |-> TRUE, value |-> <<"f">>]

\* The answers of the server: full bodies (`---\n1\n`, the header alone
\* without and with an ETag, and `--`), partial bodies that start with the last byte of what can be cached
\* (`\n2\n`, `--` and the single byte `\n`), not modified, created with the
\* body `---\n3\n`, not found and a failed request.
CacheResponses ==
    { Resp(200, EtagE, HEADER \o <<NL, "1", NL>>),
      Resp(200, NoEtag, BodyHeaderOnly),
      Resp(200, EtagF, BodyHeaderOnly),
      Resp(200, NoEtag, <<"-", "-">>),
      Resp(206, EtagE, <<NL, "2", NL>>),
      Resp(206, NoEtag, <<"-", "-">>),
      Resp(206, NoEtag, <<NL>>),
      Resp(304, NoEtag, <<>>),
      Resp(201, NoEtag, HEADER \o <<NL, "3", NL>>),
      Resp(404, NoEtag, <<>>),
      Resp(0, NoEtag, <<>>) }

\* The answers to the /versions request: those of VersionsResponses and not
\* modified.
VersionsAnswers == VersionsResponses \cup {Resp(304, NoEtag, <<>>)}

Fits(files) == \A p \in Paths : Len(files[p].data) <= MaxFileLen

\* All of the discovery state but the cache directory.
discovery == <<roots, capacity, server, versions_resp, disk0, index, pc, graph,
               visited, queue, scheduled, tasks, avail, held, launched,
               collected>>

\* A fresh cache directory, as CompactIndexClient::new leaves it.
InitCache ==
    /\ ClientIdle
    /\ ResolverIdle
    /\ LibraryIdle

\* ensure_versions_fresh once more: update_cache with the versions file as
\* cache_path and as etag_path.
RefreshVersions ==
    /\ \E resp \in VersionsAnswers :
          LET u == UpdateCache(fs, resp, VersionsPath, VersionsPath)
          IN  /\ Fits(u.fs)
              /\ fs' = u.fs
              /\ update' = [endpoint |-> "versions", cache_path |-> VersionsPath,
                            etag_path |-> VersionsPath, resp |-> resp,
                            before |-> fs,
                            sent |-> RequestHeaders(fs, VersionsPath),
                            source |-> u.kind, kind |-> u.kind,
                            versions |-> <<>>]
    /\ UNCHANGED <<discovery, svars, operands, outcome, lock_meta>>

\* info(n) once more.
FetchInfo ==
    /\ \E n \in CacheNames, resp \in CacheResponses :
          LET u == UpdateCache(fs, resp, InfoPath(n), InfoEtagPath(n))
              r == Info(fs, resp, n)
          IN  /\ Fits(r.fs)
              /\ fs' = r.fs
              /\ update' = [endpoint |-> "info", cache_path |-> InfoPath(n),
                            etag_path |-> InfoEtagPath(n), resp |-> resp,
                            before |-> fs,
                            sent |-> RequestHeaders(fs, InfoEtagPath(n)),
                            source |-> u.kind, kind |-> r.kind,
                            versions |-> r.versions]
    /\ UNCHANGED <<discovery, svars, operands, outcome, lock_meta>>

NextCache ==
    \/ RefreshVersions
    \/ FetchInfo

SpecCache == InitCache /\ [][NextCache]_vars

\* ------------------------------------------ claims on the cache update

\* The cache file and the ETag file of the endpoint updated last.
UpdatedFile == fs[update.cache_path]

EtagFileBefore == update.before[WithExtension(update.etag_path, "etag")]

\* The last update was answered 206 on a cached file with non-empty content
\* C, the body being the last byte of C followed by a suffix.
AppendedTo ==
    /\ update.endpoint # "none"
    /\ update.resp.status = 206
    /\ update.before[update.cache_path].exists
    /\ update.before[update.cache_path].data # <<>>
    /\ update.resp.body # <<>>
    /\ Head(update.resp.body) =
          update.before[update.cache_path].data[
              Len(update.before[update.cache_path].data)]

\* C followed by the suffix.
Extended ==
    update.before[update.cache_path].data \o Tail(update.resp.body)

\* The cache file as a 200 answer with the body C followed by the suffix
\* leaves it, on the same cache.
FullBodyStored ==
    UpdateCache(update.before, Resp(200, update.resp.etag, Extended),
                update.cache_path, update.etag_path).fs[update.cache_path]

\* C11 (as claimed): such an update leaves the file with C followed by the
\* suffix, and that is what a 200 answer with the whole content stores.
C11_AppendEqualsFullBody ==
    AppendedTo => (UpdatedFile = FileOf(Extended) /\ FullBodyStored = UpdatedFile)

\* C11 (amended): such an update leaves the file with C followed by the
\* suffix, and that is what a 200 answer with the whole content stores unless
\* the whole content is only the `---` header, which a 200 answer does not
\* store.
C11_AppendsSuffix ==
    AppendedTo =>
        /\ UpdatedFile = FileOf(Extended)
        /\ ~IsHeaderOnly(Extended) => FullBodyStored = UpdatedFile

\* `\n2\n` was appended to the cached `---\n1\n`.
C11_Witness ==
    /\ AppendedTo
    /\ update.resp.body = <<NL, "2", NL>>
    /\ UpdatedFile = FileOf(HEADER \o <<NL, "1", NL, "2", NL>>)

\* C12 (as claimed): after a 200 answer the cache file holds exactly the
\* body, whatever it held before; for a body that is only the header the
\* update reports nothing and no file stands at the path.
C12_FullBodyReplaces ==
    (update.endpoint # "none" /\ update.resp.status = 200) =>
        IF IsHeaderOnly(update.resp.body)
        THEN update.source = "none" /\ ~UpdatedFile.exists
        ELSE UpdatedFile = FileOf(update.resp.body)

\* C13 (as claimed): an answer with a status other than 200, 206 and 304
\* makes the update fail, and nothing of it is stored.
C13_OtherStatusFails ==
    (update.endpoint # "none" /\ update.resp.status \notin {200, 206, 304}) =>
        /\ update.source = "err"
        /\ fs = update.before

\* C14 (as claimed): an update of an endpoint whose ETag file exists sends the
\* recorded ETag in If-None-Match and Range: bytes=<len-1>- with len the size
\* of the ETag file.
C14_ConditionalHeadersSent ==
    (update.endpoint # "none" /\ EtagFileBefore.exists) =>
        /\ update.sent.if_none_match = <<EtagFileBefore.data>>
        /\ update.sent.range = <<RangeFrom(Len(EtagFileBefore.data) - 1)>>

\* C15 (as claimed): after an answer 200, 206 or 304, info returns the
\* releases of the whole cache file as it stands after the update.
C15_InfoReadsWholeFile ==
    (update.endpoint = "info" /\ update.resp.status \in {200, 206, 304}) =>
        /\ update.kind = "ok"
        /\ update.versions =
              IF UpdatedFile.exists
              THEN ParseInfoLines(update.cache_path.stem, Lines(UpdatedFile.data))
              ELSE <<>>

\* A release line carries a platform tag: a `-` in its version text, that is
\* before any space, `|` or `+`.
HasPlatformTag(line) ==
    \E j \in 1..Len(line) :
        /\ line[j] = "-"
        /\ \A k \in 1..(j - 1) : line[k] \notin {" ", "|", "+"}

\* The release lines of a body that carry no platform tag.
UntaggedLines(body) ==
    SelectSeq(Lines(body),
              LAMBDA l : ~StartsWith(l, HEADER) /\ ~HasPlatformTag(l))

\* C16: no release that info returns, and so none in the graph, carries a
\* platform tag, and info on an empty cache returns one release for each of
\* the other release lines of the body, with the version text of the line.
C16_NoPlatformRelease ==
    /\ \A n \in DOMAIN graph : \A i \in 1..Len(graph[n]) :
          ~HasPlatformTag(graph[n][i].version)
    /\ \A t \in DoneTasks : \A i \in 1..Len(t.out.versions) :
          ~HasPlatformTag(t.out.versions[i].version)
    /\ \A n \in DOMAIN graph :
          (server[n].status = 200 /\ ~disk0[InfoPath(n)].exists
           /\ ~IsHeaderOnly(server[n].body)) =>
              /\ Len(graph[n]) = Len(UntaggedLines(server[n].body))
              /\ \A i \in 1..Len(graph[n]) :
                    graph[n][i].version =
                        Before(Before(UntaggedLines(server[n].body)[i], "|"), " ")

\* A graph was returned with the name whose body holds a platform release:
\* only its other release, `2+b-c`, is there.
C16_Witness ==
    /\ pc = "done"
    /\ B \in DOMAIN graph
    /\ server[B].body = BodyPlatform
    /\ Len(graph[B]) = 1
    /\ graph[B][1].version = <<"2", "+", "b", "-", "c">>

\* -------------------------------------- the version algebra on its own

\* The version texts compared with each other, the reference versions of the
\* requirements and the versions bumped.
CompareTexts ==
    { <<"1">>,
      <<"1", ".", "0">>,
      <<"1", ".", "0", ".", "0">>,
      <<"1", ".", "a">>,
      <<"1", ".", "0", ".", "0", ".", "p", "r", "e">>,
      <<"1", ".", "2", ".", "3">>,
      <<"1", ".", "2", ".", "3", ".", "p", "r", "e">>,
      <<"1", ".", "3">>,
      <<"2">>,
      <<"1", ".", "0", ".", "b">> }

ReferenceTexts ==
    { <<"1", ".", "0", ".", "0">>,
      <<"1", ".", "1", ".", "0", ".", "p", "r", "e">>,
      <<"1", ".", "2", ".", "3">>,
      <<"1", ".", "2", ".", "3", ".", "p", "r", "e">>,
      <<"0", ".", "9", ".", "1", "1">>,
      <<"3", ".", "0", ".", "0", ".", "r", "c", "1", "2">>,
      <<"1", ".", "1">>,
      <<"1", ".", "5">>,
      <<"2">> }

BumpTexts ==
    { <<"1", ".", "2", ".", "3">>,
      <<"0", ".", "9", ".", "1", "1">>,
      <<"3", ".", "0", ".", "0", ".", "r", "c", "1", "2">>,
      <<"1", ".", "2", ".", "3", ".", "p", "r", "e">>,
      <<"1">>,
      <<"1", ".", "0">>,
      <<"1", ".", "a">>,
      <<"2", "+", "b", "-", "c">> }

Operators == {"=", ">=", "<=", "~>", "!=", ">", "<", "^"}

\* The text of an operator.
OpText(op) ==
    CASE op = "="  -> <<"=">>
      [] op = ">=" -> <<">", "=">>
      [] op = "<=" -> <<"<", "=">>
      [] op = "~>" -> <<"~", ">">>
      [] op = "!=" -> <<"!", "=">>
      [] op = ">"  -> <<">">>
      [] op = "<"  -> <<"<">>
      [] op = "^"  -> <<"^">>

\* Requirement texts of one and of two clauses, with known and with unknown
\* operators.
RequirementTexts ==
    { <<">", "=", " ", "1", ".", "0", ",", " ", "=", " ", "1", ".", "1", ".", "p", "r", "e">>,
      <<">", "=", " ", "1", ".", "0">>,
      <<"=", " ", "1", ".", "1", ".", "p", "r", "e">>,
      <<"=", " ", "1", ".", "1", ".", "p", "r", "e", ",", " ", "=", " ", "1", ".", "2", ".", "3", ".", "p", "r", "e">>,
      <<"1", ".", "0">>,
      <<"*">>,
      <<"*", ",", " ", "=", " ", "1", ".", "1", ".", "p", "r", "e">>,
      <<"~", " ", "1", ".", "0">>,
      <<"=", ">", " ", "1", ".", "0">>,
      <<"~", ">", " ", "1", ".", "0", ",", " ", "<", " ", "2">> }

\* The sets complemented: a clause, a singleton, and the intersection and
\* the union of two of them.
SetOperators == {"=", ">=", "<"}

SetTexts == { <<"1", ".", "0", ".", "0">>, <<"1", ".", "1", ".", "0", ".", "p", "r", "e">> }

ProbeTexts == { <<"1", ".", "0", ".", "0">>, <<"1", ".", "1", ".", "0", ".", "p", "r", "e">>, <<"2">> }

AlgebraInputs ==
    [fn : {"cmp"}, a : CompareTexts, b : CompareTexts, c : CompareTexts]
        \cup [fn : {"req"}, op : Operators, ver_str : ReferenceTexts]
        \cup [fn : {"bump"}, ver_str : BumpTexts]
        \cup [fn : {"parse"}, text : RequirementTexts]
        \cup [fn : {"compl"},
              how : {"clause", "singleton", "intersection", "union"},
              op1 : SetOperators, ver1 : SetTexts,
              op2 : SetOperators, ver2 : SetTexts, probe : ProbeTexts]

InitAlgebra ==
    /\ ClientIdle
    /\ ResolverIdle
    /\ update = NoUpdate
    /\ operands \in AlgebraInputs
    /\ outcome = NoCall
    /\ lock_meta = <<>>

\* RubyVersion::parse of three texts, and cmp and == on the results.
CompareVersions ==
    /\ operands.fn = "cmp"
    /\ outcome = NoCall
    /\ LET a == ParseVersion(operands.a)
           b == ParseVersion(operands.b)
           c == ParseVersion(operands.c)
       IN  outcome' = [fn |-> "cmp", a |-> a, b |-> b, c |-> c,
                       ab |-> VersionCmp(a, b), ba |-> VersionCmp(b, a),
                       bc |-> VersionCmp(b, c), ac |-> VersionCmp(a, c),
                       eq_ab |-> VersionEq(a, b)]
    /\ UNCHANGED <<dvars, svars, update, operands, lock_meta>>

\* parse_req(text, ","): of the single clause `op ver_str`, or of a text of
\* several clauses.
ParseRequirement ==
    /\ operands.fn \in {"req", "parse"}
    /\ outcome = NoCall
    /\ IF operands.fn = "req"
       THEN LET text == OpText(operands.op) \o <<" ">> \o operands.ver_str
            IN  outcome' = [fn |-> "req", op |-> operands.op,
                            rv |-> ParseVersion(operands.ver_str),
                            req |-> ParseReqText(text, ",").req]
       ELSE outcome' = [fn |-> "parse", text |-> operands.text,
                        kind |-> ParseReqText(operands.text, ",").kind,
                        clauses |-> ClausesOf(operands.text, ","),
                        req |-> ParseReqText(operands.text, ",").req,
                        req_str |-> ParseReqText(operands.text, ",").req_str]
    /\ UNCHANGED <<dvars, svars, update, operands, lock_meta>>

\* A version set built with parse_req, singleton, intersection or union, its
\* complement, and contains on both.
BuiltSet(how, op1, ver1, op2, ver2) ==
    LET s1 == ParseReqText(OpText(op1) \o <<" ">> \o ver1, ",").req
        s2 == ParseReqText(OpText(op2) \o <<" ">> \o ver2, ",").req
    IN  CASE how = "clause" -> s1
          [] how = "singleton" -> RichReqSingleton(ParseVersion(ver1))
          [] how = "intersection" -> RichReqIntersection(s1, s2)
          [] how = "union" -> RichReqUnion(s1, s2)

ComplementSet ==
    /\ operands.fn = "compl"
    /\ outcome = NoCall
    /\ LET set == BuiltSet(operands.how, operands.op1, operands.ver1,
                           operands.op2, operands.ver2)
           v == ParseVersion(operands.probe)
       IN  outcome' = [fn |-> "compl", set |-> set, v |-> v,
                       in_set |-> RichReqContains(set, v),
                       in_complement |->
                           RichReqContains(RichReqComplement(set), v)]
    /\ UNCHANGED <<dvars, svars, update, operands, lock_meta>>

\* RubyVersion::parse(ver_str).bump().
BumpVersion ==
    /\ operands.fn = "bump"
    /\ outcome = NoCall
    /\ LET v == ParseVersion(operands.ver_str)
       IN  outcome' = [fn |-> "bump", v |-> v, bumped |-> Bump(v)]
    /\ UNCHANGED <<dvars, svars, update, operands, lock_meta>>

NextAlgebra ==
    CompareVersions \/ ParseRequirement \/ BumpVersion \/ ComplementSet

SpecAlgebra == InitAlgebra /\ [][NextAlgebra]_vars

\* ---------------------------------------- claims on the version algebra

\* C17 (as claimed): of a < b, a = b and a > b exactly one holds, = being the
\* equality of the version type; a <= b and b <= a imply a = b; the order is
\* transitive.
C17_TotalOrderWithEquality ==
    outcome.fn = "cmp" =>
        /\ Cardinality({k \in {"<", "=", ">"} :
                \/ k = "<" /\ outcome.ab < 0
                \/ k = "=" /\ outcome.eq_ab
                \/ k = ">" /\ outcome.ab > 0}) = 1
        /\ (outcome.ab <= 0 /\ outcome.ba <= 0) => outcome.eq_ab
        /\ (outcome.ab <= 0 /\ outcome.bc <= 0) => outcome.ac <= 0

\* A version of numeric segments only.
IsNumericOnly(v) == \A i \in 1..Len(v) : v[i].kind = "Numeric"

\* C18: a version v.t, v of numeric segments and t a text, is strictly below
\* every version that is v up to trailing zeros, whichever has more segments,
\* and that version is strictly above it.
C18_PreReleaseBelowBase ==
    (/\ outcome.fn = "cmp"
     /\ outcome.a # <<>>
     /\ outcome.a[Len(outcome.a)].kind = "Text"
     /\ IsNumericOnly(SubSeq(outcome.a, 1, Len(outcome.a) - 1))
     /\ IsNumericOnly(outcome.b)
     /\ VersionCmp(SubSeq(outcome.a, 1, Len(outcome.a) - 1), outcome.b) = 0)
        => (outcome.ab < 0 /\ outcome.ba > 0)

\* 1.a was compared with 1.0.0, a base of more segments.
C18_Witness ==
    /\ outcome.fn = "cmp"
    /\ outcome.a = Pre(<<1>>, <<"a">>)
    /\ outcome.b = Ver(<<1, 0, 0>>)
    /\ outcome.ab < 0

\* C19 (as claimed): `= v`, `>= v`, `<= v` and `~> v` contain v; `!= v`,
\* `> v` and `< v` do not.
C19_ContainsReference ==
    outcome.fn = "req" =>
        /\ outcome.op \in {"=", ">=", "<=", "~>"}
              => RichReqContains(outcome.req, outcome.rv)
        /\ outcome.op \in {"!=", ">", "<"}
              => ~RichReqContains(outcome.req, outcome.rv)

\* The versions the ranges are probed with: those of Points and some of
\* other lengths.
Probes ==
    {Points[i] : i \in 1..Len(Points)}
        \cup {Ver(<<1>>), Ver(<<1, 1>>), Ver(<<1, 3, 0>>), Ver(<<1, 10>>),
              Ver(<<2>>), Ver(<<3>>), Ver(<<3, 1, 0>>)}

\* Ranges::contains.
RangesContains(range, w) == AtomOf(w) \in range

\* The upper bound of `~> v` as the rule gives it.
UpperBound(v) ==
    IF Len(v) <= 2 THEN <<Numeric(v[1].num + 1)>> ELSE Bump(v)

\* C20: the range of `~> v` holds exactly the versions w with v <= w < u, u
\* the major plus one for a v of one or two segments and bump(v) otherwise;
\* bump(1.2.3) = 1.3, bump(0.9.11) = 0.10, bump(3.0.0.rc12) = 3.1; `~> 1.1`
\* contains 1.10.0 and 1.11.0; `~> 1.5` contains 1.5.0 and 1.9.9, not 2.0.0.
C20_PessimisticInterval ==
    /\ (outcome.fn = "req" /\ outcome.op = "~>") =>
          /\ \A w \in Probes :
                RangesContains(outcome.req.range, w) <=>
                    (/\ VersionCmp(outcome.rv, w) <= 0
                     /\ VersionCmp(w, UpperBound(outcome.rv)) < 0)
          /\ outcome.rv = Ver(<<1, 1>>) =>
                /\ RichReqContains(outcome.req, Ver(<<1, 10, 0>>))
                /\ RichReqContains(outcome.req, Ver(<<1, 11, 0>>))
          /\ outcome.rv = Ver(<<1, 5>>) =>
                /\ RichReqContains(outcome.req, Ver(<<1, 5, 0>>))
                /\ RichReqContains(outcome.req, Ver(<<1, 9, 9>>))
                /\ ~RichReqContains(outcome.req, Ver(<<2, 0, 0>>))
    /\ outcome.fn = "bump" =>
          /\ outcome.v = Ver(<<1, 2, 3>>) => outcome.bumped = Ver(<<1, 3>>)
          /\ outcome.v = Ver(<<0, 9, 11>>) => outcome.bumped = Ver(<<0, 10>>)
          /\ outcome.v = Pre(<<3, 0, 0>>, <<"r", "c", "1", "2">>)
                => outcome.bumped = Ver(<<3, 1>>)

\* `~> 3.0.0.rc12` was parsed: its range holds 3.0.0.rc12 and 3.0.0 and not
\* 3.1.
C20_Witness ==
    /\ outcome.fn = "req"
    /\ outcome.op = "~>"
    /\ outcome.rv = Pre(<<3, 0, 0>>, <<"r", "c", "1", "2">>)
    /\ RangesContains(outcome.req.range, outcome.rv)
    /\ RangesContains(outcome.req.range, Ver(<<3, 0, 0>>))
    /\ ~RangesContains(outcome.req.range, Ver(<<3, 1>>))

\* Every reference version and every bound of the requirements parsed is
\* one of Points up to trailing zeros, so that the atoms tell the versions
\* in use apart.
Exact(v) == \E i \in 1..Len(Points) : VersionCmp(Points[i], v) = 0

AtomsAreExact ==
    /\ \A w \in Probes : Exact(w)
    /\ outcome.fn = "req" =>
          (Exact(outcome.rv) /\ Exact(PessimisticNext(outcome.rv)))

\* ------------------------------------- further claims on the discovery

\* C25: in one call no name has more than one fetch launched, and a graph
\* entry, once written, is never written again: no step launches a second
\* fetch for a name and every step leaves the entries of the graph as they
\* are.
C25_OneFetchPerName ==
    [][/\ \A n \in Names : launched'[n] <= 1
       /\ \A n \in DOMAIN graph :
             n \in DOMAIN graph' /\ graph'[n] = graph[n]]_vars

\* A call returned with a name that was twice among the roots and is a
\* dependency of its own releases: one fetch, one entry.
C25_Witness ==
    /\ pc = "done"
    /\ roots = <<A, A>>
    /\ server[A].body = BodyTwoReleases
    /\ launched[A] = 1
    /\ A \in DOMAIN graph

\* C26 (as claimed): an update that fails or stores no body leaves the ETag
\* file of its endpoint as it was before the update.
C26_EtagFollowsFile ==
    (update.endpoint # "none" /\ update.source \in {"none", "err", "panic"}) =>
        fs[WithExtension(update.etag_path, "etag")] = EtagFileBefore

\* ------------------------------- further claims on the version algebra

\* An `=` clause on a pre-release.
IsPinnedPreRelease(clause) == clause.op = "=" /\ IsPrerelease(clause.ver)

\* C21 (as claimed): the requirement parsed from a text with at least one
\* clause other than `*` admits pre-releases if and only if one of its
\* clauses is an `=` clause on a pre-release.
C21_AllowPreIffPinned ==
    (/\ outcome.fn = "parse"
     /\ \E i \in 1..Len(outcome.clauses) : outcome.clauses[i].op # "*") =>
        (outcome.req.allow_pre <=>
            \E i \in 1..Len(outcome.clauses) :
                IsPinnedPreRelease(outcome.clauses[i]))

\* The operator characters a clause starts with.
OperatorChars == {"~", "^", ">", "<", "=", "!"}

RECURSIVE LeadingOperator(_)
LeadingOperator(s) ==
    IF s # <<>> /\ Head(s) \in OperatorChars
    THEN <<Head(s)>> \o LeadingOperator(Tail(s))
    ELSE <<>>

\* A clause whose operator is none of the eight, a bare version and `*`
\* having no operator.
HasUnknownOperator(s) ==
    /\ LeadingOperator(s) # <<>>
    /\ \A op \in Operators : LeadingOperator(s) # OpText(op)

\* C22 (as claimed): parsing a text with a clause of unknown operator fails
\* and yields no requirement.
C22_UnknownOperatorFails ==
    (/\ outcome.fn = "parse"
     /\ \E i \in 1..Len(outcome.req_str) :
           HasUnknownOperator(outcome.req_str[i])) =>
        outcome.kind # "ok"

\* C29 (as claimed): of a set and its complement exactly one contains a
\* version.
C29_ComplementPartitions ==
    outcome.fn = "compl" => (outcome.in_set # outcome.in_complement)

\* C30 (as claimed): a version admitted by `^ v` is at or above v and has
\* the major of v when that is above 0, and has major 0 and the minor of v
\* when the major of v is 0 and v has a minor.
C30_CaretKeepsMajor ==
    (outcome.fn = "req" /\ outcome.op = "^") =>
        \A w \in Probes :
            RichReqContains(outcome.req, w) =>
                IF outcome.rv[1].num > 0
                THEN /\ VersionCmp(outcome.rv, w) <= 0
                     /\ w[1] = outcome.rv[1]
                ELSE Len(outcome.rv) > 1 =>
                        /\ w[1] = outcome.rv[1]
                        /\ Len(w) > 1
                        /\ w[2] = outcome.rv[2]

\* ------------------------------------------------ the lockfile writer

\* u64::to_string and the Display of RubyVersion: the segments joined by dots.
RECURSIVE NumText(_)
NumText(n) ==
    IF n < 10 THEN <<Digits[n + 1]>>
    ELSE NumText(n \div 10) \o <<Digits[(n % 10) + 1]>>

RECURSIVE JoinWith(_, _)
JoinWith(items, sep) ==
    IF items = <<>> THEN <<>>
    ELSE IF Len(items) = 1 THEN items[1]
    ELSE items[1] \o sep \o JoinWith(Tail(items), sep)

VersionText(v) ==
    JoinWith([i \in 1..Len(v) |->
                 IF v[i].kind = "Numeric" THEN NumText(v[i].num) ELSE v[i].text],
             <<".">>)

\* sort_by(|a, b| a.0.cmp(&b.0)): a stable sort on the name.
RECURSIVE InsertByName(_, _)
InsertByName(sorted, x) ==
    IF sorted = <<>> THEN <<x>>
    ELSE IF StrCmp(x.name, Head(sorted).name) < 0 THEN <<x>> \o sorted
    ELSE <<Head(sorted)>> \o InsertByName(Tail(sorted), x)

RECURSIVE SortFrom(_, _)
SortFrom(sorted, rest) ==
    IF rest = <<>> THEN sorted
    ELSE SortFrom(InsertByName(sorted, Head(rest)), Tail(rest))

\* The sort as it would be if the items were left in their order.
SortByNameKeepsOrder(items) == items

SortByName(items) == SortFrom(<<>>, items)

\* Resolver::get_dependencies_str: the entry of lock_meta under the key, the
\* keys compared with the derived equality of (String, RubyVersion).
GetDependenciesStr(meta, package, version) ==
    IF <<package, version>> \in DOMAIN meta
    THEN Some(meta[<<package, version>>]) ELSE None

\* The clauses of a dependency as write_lockfile renders them: in parentheses
\* and joined by `, ` when no clause is `>= 0`, nothing otherwise.
GreaterEqualZero == <<">", "=", " ", "0">>

RequirementSuffix(dr) ==
    IF \A i \in 1..Len(dr) : dr[i] # GreaterEqualZero
    THEN <<" ", "(">> \o JoinWith(dr, <<",", " ">>) \o <<")">>
    ELSE <<>>

Reversed(s) == [i \in 1..Len(s) |-> s[Len(s) + 1 - i]]

Indent(n) == [i \in 1..n |-> " "]

\* The lines of the dependencies of a package under `specs:` (clauses
\* reversed) and under DEPENDENCIES (clauses as stored).
SpecDependencyLines(deps) ==
    [i \in 1..Len(SortByName(deps)) |->
        Indent(6) \o SortByName(deps)[i].name
            \o RequirementSuffix(Reversed(SortByName(deps)[i].requirement_str))
            \o <<NL>>]

RootDependencyLines(deps) ==
    [i \in 1..Len(SortByName(deps)) |->
        Indent(2) \o SortByName(deps)[i].name
            \o RequirementSuffix(SortByName(deps)[i].requirement_str)
            \o <<NL>>]

\* The lines of one solution entry: nothing for `root`, else the package
\* with its version and the lines of its dependencies.
SpecLines(meta, entry) ==
    IF entry.name = Root THEN <<>>
    ELSE << Indent(4) \o entry.name \o <<" ", "(">>
               \o VersionText(entry.version) \o <<")", NL>> >>
         \o (IF GetDependenciesStr(meta, entry.name, entry.version) = None
             THEN <<>>
             ELSE SpecDependencyLines(
                    GetDependenciesStr(meta, entry.name, entry.version)[1]))

RECURSIVE AllSpecLines(_, _)
AllSpecLines(meta, entries) ==
    IF entries = <<>> THEN <<>>
    ELSE SpecLines(meta, Head(entries)) \o AllSpecLines(meta, Tail(entries))

GemSection ==
    <<"G", "E", "M", "\n", " ", " ", "r", "e", "m", "o", "t", "e", ":", " ",
      "h", "t", "t", "p", "s", ":", "/", "/", "r", "u", "b", "y", "g", "e",
      "m", "s", ".", "o", "r", "g", "/", "\n", " ", " ", "s", "p", "e", "c",
      "s", ":", "\n">>

PlatformsSection ==
    <<"\n", "P", "L", "A", "T", "F", "O", "R", "M", "S", "\n", " ", " ",
      "r", "u", "b", "y", "\n", "\n", "D", "E", "P", "E", "N", "D", "E",
      "N", "C", "I", "E", "S", "\n">>

BundledSection ==
    <<"\n", "B", "U", "N", "D", "L", "E", "D", " ", "W", "I", "T", "H",
      "\n", " ", " ", " ", "2", ".", "5", ".", "2", "2", "\n">>

\* write_lockfile: the lines under `specs:`, the lines under DEPENDENCIES and
\* the bytes of the file.
WriteLockfile(solutions, meta) ==
    LET specs == AllSpecLines(meta, SortByName(solutions))
        dependencies ==
            IF GetDependenciesStr(meta, Root, RootVersion) = None THEN <<>>
            ELSE RootDependencyLines(
                    GetDependenciesStr(meta, Root, RootVersion)[1])
    IN  [specs |-> specs,
         dependencies |-> dependencies,
         text |-> GemSection \o JoinWith(specs, <<>>) \o PlatformsSection
                    \o JoinWith(dependencies, <<>>) \o BundledSection]

\* Resolver::add_dependencies, on lock_meta: the entry of a key that is
\* already there stays (entry().or_insert()).
AddLockMeta(meta, gem, version, constraints) ==
    IF <<gem, version>> \in DOMAIN meta THEN meta
    ELSE (<<gem, version>> :>
            [i \in 1..Len(constraints) |->
                [name |-> constraints[i].name,
                 requirement_str |-> constraints[i].requirement_str]])
         @@ meta

\* A dependency with its requirement text, parsed as info does for a release
\* (clauses separated by `&`) and as main does for the Gemfile (`,`; a
\* missing requirement read as `*`).
Constraint(name, text, sep) ==
    [name |-> name, req |-> ParseReqText(text, sep).req,
     requirement_str |-> ParseReqText(text, sep).req_str]

ReleaseDependencyLists ==
    { << Constraint(B, <<">", "=", " ", "0", "&", "<", " ", "2">>, "&") >>,
      << Constraint(C, <<"~", ">", " ", "1", ".", "0">>, "&"),
         Constraint(B, <<"<", " ", "2", "&", ">", "=", " ", "1">>, "&") >>,
      << Constraint(B, <<">", "=", " ", "0">>, "&") >> }

RootDependencyLists ==
    { << Constraint(B, <<">", "=", " ", "0">>, ","),
         Constraint(A, <<"*">>, ",") >>,
      << Constraint(B, <<"<", " ", "2", ",", " ", ">", "=", " ", "1">>, ","),
         Constraint(A, <<"~", ">", " ", "1", ".", "0">>, ",") >>,
      << Constraint(A, <<">", "=", " ", "1">>, ","),
         Constraint(A, <<"<", " ", "2">>, ",") >> }

\* The calls of add_dependencies: a gem with a version of its info file and
\* the dependencies of that release, or the root with those of the Gemfile.
LockCalls ==
    [gem : {A}, version : {Ver(<<1, 0>>), Ver(<<1, 0, 0>>)},
     constraints : ReleaseDependencyLists]
        \cup [gem : {B}, version : {Ver(<<2>>)},
              constraints : {<<>>, << Constraint(C, <<">", "=", " ", "0">>, "&") >>}]
        \cup [gem : {Root}, version : {RootVersion},
              constraints : RootDependencyLists]

\* The solver's state but the dependency provider.
solving == <<gems, gemfile, store, listed, trail, buffer, phase, conflict,
             changed, added, backtracked, last_pick>>

InitLock ==
    /\ ClientIdle
    /\ SolverIdle
    /\ universe = [p \in Packages |-> <<>>]
    /\ LibraryIdle

\* resolver.add_dependencies(gem, version, constraints), while no lockfile
\* is written.
AddDependenciesCall ==
    /\ outcome = NoCall
    /\ \E call \in LockCalls :
          /\ universe' = AddDependencies(universe, call.gem, call.version,
                                         call.constraints)
          /\ lock_meta' = AddLockMeta(lock_meta, call.gem, call.version,
                                      call.constraints)
    /\ UNCHANGED <<dvars, solving, update, operands, outcome>>

\* The orders of a set of solution entries.
SolutionOrders(entries) ==
    {s \in [1..Cardinality(entries) -> entries] :
        \A i, j \in 1..Cardinality(entries) : i # j => s[i] # s[j]}

\* An assignment as resolve returns it: the root and, of every package with
\* releases, one of the versions the provider holds.
LockAssignments ==
    {f \in [{p \in Packages : universe[p] # <<>>} ->
               UNION {{universe[p][i].version : i \in 1..Len(universe[p])}
                        : p \in Packages}] :
        \A p \in DOMAIN f :
            \E i \in 1..Len(universe[p]) : f[p] = universe[p][i].version}

\* write_lockfile(solution_vec, resolver, path), the solution in the order
\* the HashMap gives.
WriteLockfileCall ==
    /\ outcome = NoCall
    /\ universe[Root] # <<>>
    /\ \E f \in LockAssignments :
          \E solutions \in SolutionOrders({[name |-> p, version |-> f[p]] : p \in DOMAIN f}) :
              /\ operands' = [fn |-> "lock", solutions |-> solutions]
              /\ outcome' = [fn |-> "lock"] @@ WriteLockfile(solutions, lock_meta)
    /\ UNCHANGED <<dvars, svars, update, lock_meta>>

NextLock == AddDependenciesCall \/ WriteLockfileCall

SpecLock == InitLock /\ [][NextLock]_vars

\* ------------------------------------------ claims on the lockfile writer

\* The suffix of a dependency line as the rule gives it: none when every
\* clause is `>= 0`, else the clauses joined by `, ` in parentheses.
RuledSuffix(dr) ==
    IF \A i \in 1..Len(dr) : dr[i] = GreaterEqualZero THEN <<>>
    ELSE <<" ", "(">> \o JoinWith(dr, <<",", " ">>) \o <<")">>

LinesOf(lines) == {lines[i] : i \in 1..Len(lines)}

\* The dependencies recorded for the root and for the entries of the
\* solution written.
RootEntries ==
    IF <<Root, RootVersion>> \in DOMAIN lock_meta
    THEN lock_meta[<<Root, RootVersion>>] ELSE <<>>

WrittenEntries ==
    {i \in 1..Len(operands.solutions) :
        /\ operands.solutions[i].name # Root
        /\ <<operands.solutions[i].name, operands.solutions[i].version>>
              \in DOMAIN lock_meta}

EntriesOf(i) ==
    lock_meta[<<operands.solutions[i].name, operands.solutions[i].version>>]

\* C23 (as claimed): every dependency with clauses recorded for a written
\* package or for the root has its line, without a suffix exactly when all
\* its clauses are `>= 0` and else with its clauses (under `specs:`
\* reversed) joined by `, ` in parentheses.
C23_SuffixOmittedIffAllTrivial ==
    outcome.fn = "lock" =>
        /\ \A i \in WrittenEntries : \A k \in 1..Len(EntriesOf(i)) :
              EntriesOf(i)[k].requirement_str # <<>> =>
              Indent(6) \o EntriesOf(i)[k].name
                  \o RuledSuffix(Reversed(EntriesOf(i)[k].requirement_str))
                  \o <<NL>> \in LinesOf(outcome.specs)
        /\ \A k \in 1..Len(RootEntries) :
              RootEntries[k].requirement_str # <<>> =>
              Indent(2) \o RootEntries[k].name
                  \o RuledSuffix(RootEntries[k].requirement_str)
                  \o <<NL>> \in LinesOf(outcome.dependencies)

\* C28 (as claimed): a root dependency without clauses, its requirement
\* missing or `*`, is written under DEPENDENCIES as its bare name.
C28_BareNameForNoRequirement ==
    outcome.fn = "lock" =>
        \A k \in 1..Len(RootEntries) :
            RootEntries[k].requirement_str = <<>> =>
                /\ Indent(2) \o RootEntries[k].name \o <<NL>>
                      \in LinesOf(outcome.dependencies)
                /\ Indent(2) \o RootEntries[k].name \o <<" ", "(", ")", NL>>
                      \notin LinesOf(outcome.dependencies)

\* The requirement of a list of raw clauses.
ReqOfStrings(strs) ==
    ParseClauses(RichReqFull, [i \in 1..Len(strs) |-> ClauseOf(strs[i])])

\* The dependencies the provider holds for a version, found by the order.
ProvidedDeps(package, version) ==
    LET i == CHOOSE i \in 1..Len(universe[package]) :
                VersionCmp(universe[package][i].version, version) = 0
    IN  universe[package][i].deps

\* C27 (as claimed): every release of the provider has its entry in
\* lock_meta, and every entry of lock_meta names the dependencies the
\* provider holds for its (name, version), each with the raw clauses of the
\* requirement the provider holds.
C27_LockMetaAgreesWithProvider ==
    /\ \A p \in DOMAIN universe : \A i \in 1..Len(universe[p]) :
          <<p, universe[p][i].version>> \in DOMAIN lock_meta
    /\ \A key \in DOMAIN lock_meta :
          /\ {lock_meta[key][k].name : k \in 1..Len(lock_meta[key])}
                = DOMAIN ProvidedDeps(key[1], key[2])
          /\ \A k \in 1..Len(lock_meta[key]) :
                ReqOfStrings(lock_meta[key][k].requirement_str)
                    = ProvidedDeps(key[1], key[2])[lock_meta[key][k].name]

\* The orders of a list; those that keep the items of the same name in
\* their order.
AllOrders(items) ==
    {[i \in 1..Len(items) |-> items[f[i]]] :
        f \in {g \in [1..Len(items) -> 1..Len(items)] :
                 \A i, j \in 1..Len(items) : i # j => g[i] # g[j]}}

KeepsSameNames(items) ==
    {[i \in 1..Len(items) |-> items[f[i]]] :
        f \in {g \in [1..Len(items) -> 1..Len(items)] :
                 /\ \A i, j \in 1..Len(items) : i # j => g[i] # g[j]
                 /\ \A i, j \in 1..Len(items) :
                       (i < j /\ items[g[i]].name = items[g[j]].name)
                           => g[i] < g[j]}}

\* The name a line of the lockfile starts with after its indentation.
NameOfLine(line, indent) ==
    Before(Before(SubSeq(line, indent + 1, Len(line)), " "), NL)

PackageLines == SelectSeq(outcome.specs, LAMBDA l : l[5] # " ")

\* The lockfile has its packages in ascending name order, without the root,
\* and the dependencies under DEPENDENCIES in ascending name order.
IsSorted ==
    /\ Len(PackageLines) =
          Cardinality({i \in 1..Len(operands.solutions) :
                          operands.solutions[i].name # Root})
    /\ \A i \in 1..Len(PackageLines) : NameOfLine(PackageLines[i], 4) # Root
    /\ \A i, j \in 1..Len(PackageLines) :
          i < j => StrCmp(NameOfLine(PackageLines[i], 4),
                          NameOfLine(PackageLines[j], 4)) < 0
    /\ \A i, j \in 1..Len(outcome.dependencies) :
          i < j => StrCmp(NameOfLine(outcome.dependencies[i], 2),
                          NameOfLine(outcome.dependencies[j], 2)) <= 0

\* C24 (as claimed): the bytes written are the same for every order of the
\* solution entries and every order of the dependencies recorded under a
\* key, and the lockfile is sorted.
C24_BytesIgnoreEveryOrder ==
    outcome.fn = "lock" =>
        /\ IsSorted
        /\ \A solutions \in AllOrders(operands.solutions) :
              WriteLockfile(solutions, lock_meta).text = outcome.text
        /\ \A key \in DOMAIN lock_meta :
              \A deps \in AllOrders(lock_meta[key]) :
                  WriteLockfile(operands.solutions,
                                [lock_meta EXCEPT ![key] = deps]).text
                      = outcome.text

\* C24 (amended): the bytes written are the same for every order of the
\* solution entries and every order of the dependencies recorded under a
\* key that keeps the dependencies of the same name in their order, and the
\* lockfile is sorted.
C24_BytesIgnoreOrder ==
    outcome.fn = "lock" =>
        /\ IsSorted
        /\ \A solutions \in AllOrders(operands.solutions) :
              WriteLockfile(solutions, lock_meta).text = outcome.text
        /\ \A key \in DOMAIN lock_meta :
              \A deps \in KeepsSameNames(lock_meta[key]) :
                  WriteLockfile(operands.solutions,
                                [lock_meta EXCEPT ![key] = deps]).text
                      = outcome.text

\* A lockfile was written for a solution handed over as b, root, a, the
\* dependencies of a recorded as c, b: a stands before b, and b before c
\* under a.
C24_Witness ==
    /\ outcome.fn = "lock"
    /\ Len(operands.solutions) = 3
    /\ operands.solutions[1].name = B
    /\ operands.solutions[2].name = Root
    /\ operands.solutions[3].name = A
    /\ <<A, operands.solutions[3].version>> \in DOMAIN lock_meta
    /\ Len(EntriesOf(3)) = 2
    /\ EntriesOf(3)[1].name = C
    /\ NameOfLine(PackageLines[1], 4) = A
    /\ NameOfLine(outcome.specs[2], 6) = B
    /\ NameOfLine(outcome.specs[3], 6) = C

====
